---- MODULE Spec2Model ----
(***************************************************************************)
(* A model of the enclosure sandbox launcher.                              *)
(*                                                                         *)
(* Spec        : the driver (main -> Enclosure::new -> Enclosure::spawn)   *)
(*               and the cloned child (Jailer::child_main), interleaved.   *)
(*               System calls whose outcome depends on the machine (mount, *)
(*               pivot_root, setns, clone, exec ...) succeed or fail as    *)
(*               the environment chooses; capability system calls follow   *)
(*               the kernel's capset / PR_CAPBSET_DROP rules.              *)
(* SpecWait    : JailHandle::wait and the driver's return path, started    *)
(*               from every wait status waitpid can hand back.             *)
(* SpecReport  : the ErrorReporter pipe (report_error /                    *)
(*               check_for_reported_errors).                               *)
(* SpecPrivsep : Worker::send and Supervisor::listen over the SEQPACKET    *)
(*               socket, with the bincode framing of MountCommand.         *)
(***************************************************************************)
EXTENDS Integers, Sequences, FiniteSets, TLC

VARIABLES
    \* ---- driver process (main.rs, sandbox.rs, jailer.rs) ----
    ruid,       \* real uid of the driver
    euid,       \* effective uid of the driver
    hasCaps,    \* the driver starts with a non-empty Permitted set
    capCall,    \* a direct call of a CapabilityManager method and its result
    flagsCall,  \* a call of NamespaceOptions::parse: its inputs and its result
    idm,        \* a call of IdMapWriter::write: its inputs, position and writes
    stk,        \* a GuardedStack: the size asked for, the mapping, the handle built
    mnt,        \* a mount plan: the directives, the plan built from them, its execution
    jh,         \* the child as the JailHandle's calls see it: reaped, calls made on its pid
    args,       \* the directives given on the command line
    cfg,        \* Config after Config::parse and main's defaulting
    level,      \* GlobalContext.level of the driver ("unset" before init)
    caps,       \* the driver's five capability sets
    nnp,        \* NO_NEW_PRIVS of the driver
    fsuid,      \* filesystem uid of the driver
    drvPc,      \* position of the driver
    drvExit,    \* exit code of the driver (-1 while it runs)
    drvOps,     \* system calls the driver has made, in order
    setup,      \* outcome of the parent-setup closure: "none" | "ok" | "err"
    execRes,    \* value returned by JailHandle::execute / carried to main
    handle,     \* JailHandle: [exists, waited, dropped]
    waitCalls,  \* number of waitpid calls made on the child, by kind
    log,        \* diagnostic lines written by the driver
    \* ---- cloned child (jailer.rs child_main, jail.rs) ----
    chPc,       \* position of the child
    chStep,     \* index of the next Jail::prepare step
    chOps,      \* system calls the child has made after the wait point
    chStatus,   \* wait status of the child
    \* ---- kernel objects shared by both ----
    efd,        \* counter of the Notifier's eventfd
    pipe,       \* bytes in the ErrorReporter pipe
    \* ---- ErrorReporter harness ----
    written,    \* messages written by report_error so far
    checked,    \* the last check_for_reported_errors: [done, ok, msg, after]
    \* ---- privsep channel ----
    sock,       \* datagrams queued on the SEQPACKET socket
    sent,       \* commands passed to Worker::send, in order
    delivered,  \* commands handed to the listen handler, in order
    lsn,        \* Supervisor::listen: "idle" | "reading" | "closed" | an error
    wopen,      \* the worker still holds its endpoint of the socket
    ps          \* privsep: the worker's result and wait status, the parent's position

drvVars  == <<ruid, euid, hasCaps, capCall, flagsCall, idm, stk, mnt, jh, args, cfg, level, caps, nnp, fsuid, drvPc,
              drvExit, drvOps, setup, execRes, handle, waitCalls, log>>
chVars   == <<chPc, chStep, chOps, chStatus>>
repVars  == <<written, checked>>
privVars == <<sock, sent, delivered, lsn, wopen, ps>>
vars     == <<drvVars, chVars, efd, pipe, repVars, privVars>>

----------------------------------------------------------------------------
(* Results                                                                 *)

Ok(v)   == [ok |-> TRUE,  val |-> v, err |-> "", sig |-> 0]
Err(e)  == [ok |-> FALSE, val |-> 0, err |-> e,  sig |-> 0]
ErrSig(e, s) == [ok |-> FALSE, val |-> 0, err |-> e, sig |-> s]
NoRes   == [ok |-> FALSE, val |-> 0, err |-> "unset", sig |-> 0]

----------------------------------------------------------------------------
(* Process context (context.rs)                                            *)

Uids == {0, 1000}

\* A variant that takes any caller with euid 0 for Root
GlobalContext_new_euid_only(r, e, permitted) ==
    IF e = 0 THEN "Root"
    ELSE IF permitted THEN "RootlessWithCapabilities"
    ELSE "Rootless"

\* GlobalContext::new: the privilege level, or "fatal" when the constructor bails
GlobalContext_new(r, e, permitted) ==
    IF r # e
    THEN IF e # 0 THEN "fatal" ELSE "Setuid"
    ELSE IF e = 0 THEN "Root"
    ELSE IF permitted THEN "RootlessWithCapabilities"
    ELSE "Rootless"

----------------------------------------------------------------------------
(* Capabilities (capabilities.rs, with the kernel's rules for capset and   *)
(* prctl(PR_CAPBSET_DROP))                                                 *)

SETUID_CAPABILITIES ==
    {"CAP_SYS_ADMIN", "CAP_SYS_CHROOT", "CAP_NET_ADMIN",
     "CAP_SETUID", "CAP_SETGID", "CAP_SYS_PTRACE"}

\* caps::runtime::thread_all_supported(): the six above and two others
AllCaps == SETUID_CAPABILITIES \cup {"CAP_SETPCAP", "CAP_CHOWN"}

FullCaps  == [eff |-> AllCaps, perm |-> AllCaps, inh |-> {}, bnd |-> AllCaps, amb |-> {}]
EmptyCaps == [eff |-> {}, perm |-> {}, inh |-> {}, bnd |-> AllCaps, amb |-> {}]

CapOk(c)  == [ok |-> TRUE,  caps |-> c]
CapErr(c) == [ok |-> FALSE, caps |-> c]

\* capset(2): Permitted may only shrink, Effective must stay inside the new
\* Permitted, Inheritable may only grow inside Permitted (or Bounding with
\* CAP_SETPCAP).  A refused call changes nothing.
KernelCapset(c, e, p, i) ==
    LET inhOk == IF "CAP_SETPCAP" \in c.eff
                 THEN i \subseteq (c.inh \cup c.bnd)
                 ELSE i \subseteq (c.inh \cup c.perm)
    IN IF inhOk /\ p \subseteq c.perm /\ e \subseteq p
       THEN CapOk([c EXCEPT !.eff = e, !.perm = p, !.inh = i,
                            !.amb = c.amb \cap p \cap i])
       ELSE CapErr(c)

\* CapabilityManager::set_capability_set (caps::set = capget, replace one set, capset)
set_capability_set(c, which, S) ==
    CASE which = "Effective"   -> KernelCapset(c, S, c.perm, c.inh)
      [] which = "Permitted"   -> KernelCapset(c, c.eff, S, c.inh)
      [] which = "Inheritable" -> KernelCapset(c, c.eff, c.perm, S)

\* CapabilityManager::clear_capability_set (caps::clear)
clear_capability_set(c, which) == set_capability_set(c, which, {})

\* CapabilityManager::drop_bounding_capability: prctl(PR_CAPBSET_DROP) needs
\* CAP_SETPCAP in Effective
drop_bounding_capability(c, cap) ==
    IF "CAP_SETPCAP" \in c.eff
    THEN CapOk([c EXCEPT !.bnd = c.bnd \ {cap}])
    ELSE CapErr(c)

\* Dropping each capability of S in turn (the order is that of a hash set; every
\* drop succeeds or fails alike, so the outcome does not depend on it)
DropEach(c, S) ==
    IF S = {} THEN CapOk(c)
    ELSE IF "CAP_SETPCAP" \in c.eff
         THEN CapOk([c EXCEPT !.bnd = c.bnd \ S])
         ELSE CapErr(c)

\* CapabilityManager::drop_all_bounding_capabilities
drop_all_bounding_capabilities(c) == DropEach(c, c.bnd)

\* The error of a refused drop: caps::drop's error under the context added by
\* drop_bounding_capability
DropError ==
    [context |-> "Failed to drop bounding capability",
     source  |-> "PR_CAPBSET_DROP failure: Operation not permitted"]

\* anyhow's to_string(): the outermost context alone, without the chain
ErrorToString(e) == e.context

\* Which of the phrases is_expected_error looks for a lower-cased text contains
ExpectedPhrases == {"invalid", "not permitted", "permission denied", "operation not supported"}
PhrasesIn(text) ==
    IF text = "PR_CAPBSET_DROP failure: Operation not permitted"
    THEN {"not permitted"}
    ELSE {}

\* A variant that searches the whole error chain
is_expected_error_whole_chain(e) ==
    (PhrasesIn(e.context) \cup PhrasesIn(e.source)) \cap ExpectedPhrases # {}

\* CapabilityManager::is_expected_error
is_expected_error(e) == PhrasesIn(ErrorToString(e)) \cap ExpectedPhrases # {}

\* CapabilityManager::retain_requested_capabilities under a configuration: a
\* refused drop is skipped only in permissive mode and when the error is an
\* expected one, otherwise it is returned
retain_with_config(c, requested, permissive_mode) ==
    LET r == DropEach(c, AllCaps \ requested)
    IN IF r.ok THEN r
       ELSE IF permissive_mode /\ is_expected_error(DropError) THEN CapOk(c)
       ELSE r

\* CapabilityManager::retain_requested_capabilities with permissive_mode = false
retain_requested_capabilities(c, requested) == retain_with_config(c, requested, FALSE)

\* CapabilityManager::UNPRIVILEGED_SETS, in array order
UNPRIVILEGED_SETS == <<"Permitted", "Inheritable", "Effective">>

\* CapabilityManager::clear_unprivileged_capabilities: clear the three sets in
\* array order, stopping at the first refusal
clear_unprivileged_capabilities(c) ==
    LET r1 == clear_capability_set(c, UNPRIVILEGED_SETS[1])
        r2 == clear_capability_set(r1.caps, UNPRIVILEGED_SETS[2])
        r3 == clear_capability_set(r2.caps, UNPRIVILEGED_SETS[3])
    IN IF ~r1.ok THEN r1 ELSE IF ~r2.ok THEN r2 ELSE r3

\* A variant that leaves Permitted as it was
apply_setuid_capabilities_keep_permitted(c, requested) ==
    LET r1 == drop_all_bounding_capabilities(c)
        r2 == retain_requested_capabilities(r1.caps, requested)
        r3 == set_capability_set(r2.caps, "Effective", requested)
        r5 == clear_capability_set(r3.caps, "Inheritable")
    IN IF ~r1.ok THEN r1 ELSE IF ~r2.ok THEN r2 ELSE IF ~r3.ok THEN r3 ELSE r5

\* apply_setuid_capabilities
apply_setuid_capabilities(c, requested) ==
    LET r1 == drop_all_bounding_capabilities(c)
        r2 == retain_requested_capabilities(r1.caps, requested)
        r3 == set_capability_set(r2.caps, "Effective", requested)
        r4 == set_capability_set(r3.caps, "Permitted", requested)
        r5 == clear_capability_set(r4.caps, "Inheritable")
    IN IF ~r1.ok THEN r1 ELSE IF ~r2.ok THEN r2 ELSE IF ~r3.ok THEN r3
       ELSE IF ~r4.ok THEN r4 ELSE r5

\* CapabilityManager::configure_with(f) with validate_operations = true
configure_with_setuid(c) ==
    LET r == apply_setuid_capabilities(c, SETUID_CAPABILITIES)
    IN IF ~r.ok THEN r
       ELSE IF SETUID_CAPABILITIES \subseteq r.caps.eff THEN r ELSE CapErr(r.caps)

----------------------------------------------------------------------------
(* Command line (config.rs, main.rs)                                       *)

\* NamespaceOptions::mappings: the flags behind the --unshare-* switches, in
\* array order
Mappings ==
    <<"CLONE_FILES", "CLONE_FS", "CLONE_NEWCGROUP", "CLONE_NEWUSER", "CLONE_NEWIPC",
      "CLONE_NEWNET", "CLONE_NEWNS", "CLONE_NEWPID", "CLONE_NEWUTS", "CLONE_SYSVSEM">>

\* CloneFlags::all(): every flag nix knows, the ten above among them
CloneFlagsAll ==
    {Mappings[i] : i \in DOMAIN Mappings}
    \cup {"CLONE_VM", "CLONE_SIGHAND", "CLONE_PTRACE", "CLONE_VFORK", "CLONE_PARENT",
          "CLONE_THREAD", "CLONE_SETTLS", "CLONE_PARENT_SETTID", "CLONE_CHILD_CLEARTID",
          "CLONE_DETACHED", "CLONE_UNTRACED", "CLONE_CHILD_SETTID", "CLONE_IO"}

\* A variant that skips a requested flag the kernel lacks
NamespaceOptions_parse_skip_unsupported(unshare_all, requested, supported) ==
    IF unshare_all THEN Ok(CloneFlagsAll)
    ELSE Ok({"CLONE_NEWNS"} \cup (requested \cap supported))

\* NamespaceOptions::parse: all flags for --unshare-all; otherwise CLONE_NEWNS
\* and the requested flags, or an error naming the first requested flag (in
\* array order) that is_namespace_supported refuses
NamespaceOptions_parse(unshare_all, requested, supported) ==
    IF unshare_all THEN Ok(CloneFlagsAll)
    ELSE LET bad == {i \in DOMAIN Mappings :
                        Mappings[i] \in requested /\ Mappings[i] \notin supported}
         IN IF bad # {}
            THEN LET first == CHOOSE i \in bad : \A j \in bad : i <= j
                 IN [Err("Kernel doesn't support") EXCEPT !.val = Mappings[first]]
            ELSE Ok({"CLONE_NEWNS"} \cup requested)

\* An FD-valued directive: absent, an open descriptor, or a closed one
FdOpt == {"none", "valid", "invalid"}

ArgSpace == [unshare_user : BOOLEAN, userns : FdOpt, switch_userns : FdOpt]

\* clap's checks in Config::parse: --userns runs validate_fd_arg and excludes
\* --unshare-user (group userns_mode); --switch-userns requires --unshare-user
\* and has no value parser
ClapAccepts(a) ==
    /\ a.userns # "invalid"
    /\ ~(a.userns # "none" /\ a.unshare_user)
    /\ (a.switch_userns # "none" => a.unshare_user)

\* main: unshare the user namespace by default for an unprivileged caller
MainConfig(a, lvl, r) ==
    [a EXCEPT !.unshare_user =
        a.unshare_user \/ (lvl # "Setuid" /\ r # 0 /\ a.userns = "none")]

----------------------------------------------------------------------------
(* Enclosure::new (sandbox.rs)                                             *)

SetuidProgramOps ==
    <<"capbset_drop_all", "capbset_retain", "capset_effective",
      "capset_permitted", "capset_inheritable">>

\* How many stages of apply_setuid_capabilities succeed from c
SetuidStagesDone(c) ==
    LET r1 == drop_all_bounding_capabilities(c)
        r2 == retain_requested_capabilities(r1.caps, SETUID_CAPABILITIES)
        r3 == set_capability_set(r2.caps, "Effective", SETUID_CAPABILITIES)
        r4 == set_capability_set(r3.caps, "Permitted", SETUID_CAPABILITIES)
        r5 == clear_capability_set(r4.caps, "Inheritable")
    IN IF ~r1.ok THEN 0 ELSE IF ~r2.ok THEN 1 ELSE IF ~r3.ok THEN 2
       ELSE IF ~r4.ok THEN 3 ELSE IF ~r5.ok THEN 4 ELSE 5

\* A variant that treats Setuid like Root and leaves the capability sets alone
configure_capabilities_skip_setuid(lvl, c) ==
    IF lvl \in {"Root", "Rootless", "Setuid"}
    THEN [ok |-> TRUE, caps |-> c, ops |-> <<>>]
    ELSE [ok |-> FALSE, caps |-> c, ops |-> <<>>]

\* A variant that lets RootlessWithCapabilities through like Rootless
configure_capabilities_accept_file_caps(lvl, c) ==
    IF lvl = "Setuid"
    THEN LET r == configure_with_setuid(c)
         IN [ok |-> r.ok, caps |-> r.caps,
             ops |-> <<"setfsuid">> \o SubSeq(SetuidProgramOps, 1, SetuidStagesDone(c))]
    ELSE [ok |-> TRUE, caps |-> c, ops |-> <<>>]

\* Enclosure::configure_capabilities_by_privilege: the outcome, the capability
\* sets it leaves and the system calls it made
configure_capabilities_by_privilege(lvl, c) ==
    CASE lvl = "Root"     -> [ok |-> TRUE, caps |-> c, ops |-> <<>>]
      [] lvl = "Rootless" -> [ok |-> TRUE, caps |-> c, ops |-> <<>>]
      [] lvl = "Setuid"   ->
            LET r == configure_with_setuid(c)
            IN [ok |-> r.ok, caps |-> r.caps,
                ops |-> <<"setfsuid">> \o SubSeq(SetuidProgramOps, 1, SetuidStagesDone(c))]
      [] OTHER            -> [ok |-> FALSE, caps |-> c, ops |-> <<>>]

----------------------------------------------------------------------------
(* Notifier (notifier.rs): an eventfd created with counter 0, blocking,    *)
(* not a semaphore                                                         *)

\* A variant in which the read does not block (EFD_NONBLOCK with the error ignored)
\* A variant of the write that leaves the counter as it was
eventfd_write_lost(counter) == counter

\* Notifier::signal: write(fd, 1u64) adds 1 to the counter of the eventfd
eventfd_write(counter) == counter + 1

EventfdReadable_nonblocking(counter) == counter >= 0

\* read(2) on the eventfd returns only when the counter is non-zero
EventfdReadable(counter) == counter > 0

----------------------------------------------------------------------------
(* JailHandle (jailer.rs)                                                  *)

\* A variant that waits for the child before it has signalled it
execute_next_wait_first(setupOk) == IF setupOk THEN "wait" ELSE "return"

\* A variant that signals the child whatever the closure returned
execute_next_always_signal(setupOk) == "signal"

\* JailHandle::execute after the parent closure: signal the child, or return
\* the closure's error
execute_next(setupOk) == IF setupOk THEN "signal" ELSE "return"

\* A variant that turns a signal death into the shell's 128 + signal exit code
JailHandle_wait_shell_code(status) ==
    CASE status.kind = "Exited"   -> [ok |-> TRUE, val |-> status.val, err |-> "", sig |-> 0]
      [] status.kind = "Signaled" -> [ok |-> TRUE, val |-> 128 + status.val, err |-> "", sig |-> 0]
      [] OTHER                    -> [ok |-> FALSE, val |-> 0, err |-> "Unexpected wait status", sig |-> 0]

\* JailHandle::wait: the value returned for the status waitpid handed back
JailHandle_wait(status) ==
    CASE status.kind = "Exited"   -> Ok(status.val)
      [] status.kind = "Signaled" -> ErrSig("Child process killed by signal", status.val)
      [] OTHER                    -> Err("Unexpected wait status")

\* Enclosure::spawn_inner / Enclosure::spawn: `handle.execute(..)?; Ok(())`
spawn_inner_result(r) == IF r.ok THEN Ok(0) ELSE r

\* main: `sandbox.spawn()?; Ok(())`; the process exit code of a Result
main_exit(r) == IF r.ok THEN 0 ELSE 1

\* A variant of Drop that prints nothing
drop_log_silent(h, status) == {}

\* The line Drop for JailHandle prints, from what its try_wait sees
drop_log(h, status) ==
    IF h.waited THEN {}
    ELSE CASE status.kind = "Exited"   -> {"info_exited_during_drop"}
           [] status.kind = "Signaled" -> {"warn_failed_status_check"}
           [] OTHER                    -> {"warn_dropped_still_running"}

\* The waited flag after Drop's try_wait
drop_waited(h, status) == h.waited \/ status.kind \in {"Exited", "Signaled"}

----------------------------------------------------------------------------
(* Jail::prepare (jail.rs): the system calls of the child, in program order *)

\* IdMapWriter::write: open the process directory under /proc, write "deny"
\* to setgroups when deny_groups is set, then write uid_map and gid_map
IdMapWriteSteps(deny_groups) ==
    << <<"openat", "proc_fd/self", "O_PATH">> >>
    \o (IF deny_groups THEN << <<"write", "setgroups", "deny">> >> ELSE <<>>)
    \o << <<"write", "uid_map", "">>,
          <<"write", "gid_map", "">> >>

\* A variant of the child's writer built with deny_groups = false
IdMapSteps_no_deny == IdMapWriteSteps(FALSE)

\* Jail::prepare builds its writer with deny_groups = true, map_root = false
IdMapSteps == IdMapWriteSteps(TRUE)

\* A variant that always writes the single-line map
IdMapWriter_maps_single_line(in) ==
    [uid_map |-> << <<in.uid, in.ruid, 1>> >>,
     gid_map |-> << <<in.gid, in.guid, 1>> >>]

\* IdMapWriter::write: the texts of uid_map and gid_map, each a sequence of
\* lines "<inside> <outside> <count>\n"
IdMapWriter_maps(in) ==
    [uid_map |-> IF in.map_root /\ in.ruid # 0 /\ in.uid # 0
                 THEN << <<0, in.overflow.uid, 1>>, <<in.uid, in.ruid, 1>> >>
                 ELSE << <<in.uid, in.ruid, 1>> >>,
     gid_map |-> IF in.map_root /\ in.guid # 0 /\ in.gid # 0
                 THEN << <<0, in.overflow.gid, 1>>, <<in.gid, in.guid, 1>> >>
                 ELSE << <<in.gid, in.guid, 1>> >>]

RootSteps ==
    << <<"mount_slave_rec", "BASE_PATH", "">>,
       <<"mount_tmpfs", "BASE_PATH", "">>,
       <<"chdir", "BASE_PATH", "">>,
       <<"mkdir", "newroot", "0755">>,
       <<"bind_mount_self", "newroot", "">>,
       <<"mkdir", "oldroot", "0755">>,
       <<"pivot_root", "newroot", "oldroot">>,
       <<"chdir", "/", "">>,
       <<"handle_mounts", "", "">>,
       <<"remount", "oldroot", "MS_SILENT|MS_REC|MS_PRIVATE">>,
       <<"umount2", "oldroot", "MNT_DETACH">>,
       <<"open", "/", "O_DIRECTORY|O_RDONLY">>,
       <<"chdir", "/newroot", "">>,
       <<"pivot_root", ".", ".">>,
       <<"fchdir", "saved_root_fd", "">>,
       <<"umount2", ".", "MNT_DETACH">>,
       <<"chdir", "/", "">> >>

\* A variant of the sequence that leaves out the detach of oldroot
PrepareSteps_no_detach(parentSetuid, unshareUser) ==
    (IF ~parentSetuid /\ unshareUser THEN IdMapSteps ELSE <<>>)
        \o SubSeq(RootSteps, 1, 10) \o SubSeq(RootSteps, 12, Len(RootSteps))

\* A variant of the sequence that pivots before newroot is bind-mounted
PrepareSteps_pivot_early(parentSetuid, unshareUser) ==
    (IF ~parentSetuid /\ unshareUser THEN IdMapSteps ELSE <<>>)
        \o SubSeq(RootSteps, 1, 4) \o <<RootSteps[7], RootSteps[6], RootSteps[5]>>
        \o SubSeq(RootSteps, 8, Len(RootSteps))

\* Jail::prepare: the id maps are written by the child itself unless the
\* parent is setuid
PrepareSteps(parentSetuid, unshareUser) ==
    (IF ~parentSetuid /\ unshareUser THEN IdMapSteps ELSE <<>>) \o RootSteps

ExecStep == <<"execvp", "executable", "">>

\* A path argument of the child's calls as a sequence of components from the
\* root: BASE_PATH is absolute, "newroot", "oldroot" and "." are relative to
\* the working directory
ResolvePath(cwd, path) ==
    CASE path = "BASE_PATH" -> <<"BASE_PATH">>
      [] path = "/"         -> <<>>
      [] path = "/newroot"  -> <<"newroot">>
      [] path = "."         -> cwd
      [] OTHER              -> Append(cwd, path)

\* The working directory after the calls in ops: the target of the last chdir
\* (the child starts in the directory of its parent, here the root)
RECURSIVE CwdAfter(_)
CwdAfter(ops) ==
    IF ops = <<>> THEN <<>>
    ELSE LET op  == ops[Len(ops)]
             cwd == CwdAfter(SubSeq(ops, 1, Len(ops) - 1))
         IN IF op[1] = "chdir" THEN ResolvePath(cwd, op[2]) ELSE cwd

\* The Bounding set of the child after the calls in ops: a child cloned into
\* a new user namespace starts with the full set, any other child with its
\* parent's set, and only a bounding drop of its own changes it
ChildBounding(unshareUser, parentBnd, ops) ==
    IF \E i \in DOMAIN ops : ops[i][1] = "capbset_drop_all" THEN {}
    ELSE IF unshareUser THEN AllCaps
    ELSE parentBnd

----------------------------------------------------------------------------
(* Wait statuses                                                           *)

ExitCodes == 0..255
Signals   == {9, 11, 15}

NoChild  == [kind |-> "None",  val |-> 0]
Alive    == [kind |-> "Alive", val |-> 0]
Exited(c)   == [kind |-> "Exited",   val |-> c]
Signaled(s) == [kind |-> "Signaled", val |-> s]

----------------------------------------------------------------------------
(* Enclosure::configure_parent (sandbox.rs)                                *)

\* The id-map branch of configure_parent: its body is empty, so the parent
\* makes no system call in it at any privilege level
parent_idmap_ops(isSetuid, unshareUser) ==
    IF isSetuid /\ unshareUser THEN <<>> ELSE <<>>

----------------------------------------------------------------------------
(* The driver                                                              *)

inVars    == <<ruid, euid, hasCaps, capCall, flagsCall, idm, stk, mnt, jh, args>>
otherVars == <<chVars, efd, pipe, repVars, privVars>>

NoHandle == [exists |-> FALSE, waited |-> FALSE, dropped |-> FALSE]
NoArgs   == [unshare_user |-> FALSE, userns |-> "none", switch_userns |-> "none"]

\* main.rs: GlobalContext::init()
MainInit ==
    /\ drvPc = "main_init"
    /\ \E overflowRead \in BOOLEAN :
          LET l == GlobalContext_new(ruid, euid, caps.perm # {})
          IN IF ~overflowRead
             THEN level' = level /\ drvPc' = "exited" /\ drvExit' = 1 /\ log' = log
             ELSE IF l = "fatal"
             THEN /\ level' = level /\ drvPc' = "exited" /\ drvExit' = 1
                  /\ log' = log \cup {"FATAL: setuid binary must elevate to root"}
             ELSE level' = l /\ drvPc' = "parse" /\ drvExit' = drvExit /\ log' = log
    /\ UNCHANGED <<inVars, cfg, caps, nnp, fsuid, drvOps, setup, execRes,
                   handle, waitCalls, otherVars>>

\* main.rs: Config::parse() and the default for --unshare-user
ConfigParse ==
    /\ drvPc = "parse"
    /\ IF ClapAccepts(args)
       THEN cfg' = MainConfig(args, level, ruid) /\ drvPc' = "caps" /\ drvExit' = drvExit
       ELSE cfg' = cfg /\ drvPc' = "exited" /\ drvExit' = 2
    /\ UNCHANGED <<inVars, level, caps, nnp, fsuid, drvOps, setup, execRes,
                   handle, waitCalls, log, otherVars>>

\* Enclosure::new: configure_capabilities_by_privilege()
EnclosureConfigureCaps ==
    /\ drvPc = "caps"
    /\ LET r == configure_capabilities_by_privilege(level, caps)
       IN /\ caps' = r.caps
          /\ drvOps' = drvOps \o r.ops
          /\ fsuid' = IF level = "Setuid" THEN ruid ELSE fsuid
          /\ IF r.ok
             THEN drvPc' = "nnp" /\ drvExit' = drvExit /\ log' = log
             ELSE /\ drvPc' = "exited" /\ drvExit' = 1
                  /\ log' = IF level = "RootlessWithCapabilities"
                            THEN log \cup {"ROOTLESS_WITH_CAPABILITY_ERROR_MESSAGE"}
                            ELSE log
    /\ UNCHANGED <<inVars, cfg, level, nnp, setup, execRes, handle, waitCalls,
                   otherVars>>

\* A variant that goes on when the prctl call failed
apply_no_new_privs_ignore_failure(ret, flag) == [ok |-> TRUE, nnp |-> flag \/ ret = 0]

\* hardener::apply_no_new_privs: prctl(PR_SET_NO_NEW_PRIVS, 1) returned ret
apply_no_new_privs(ret, flag) ==
    IF ret # 0 THEN [ok |-> FALSE, nnp |-> flag] ELSE [ok |-> TRUE, nnp |-> TRUE]

\* Enclosure::new: hardener::apply_no_new_privs()
ApplyNoNewPrivs ==
    /\ drvPc = "nnp"
    /\ \E ret \in {0, -1} :
          LET r == apply_no_new_privs(ret, nnp)
          IN /\ nnp' = r.nnp
             /\ IF r.ok
                THEN /\ drvOps' = IF ret = 0 THEN Append(drvOps, "prctl_no_new_privs")
                                  ELSE drvOps
                     /\ drvPc' = "parse_flags" /\ drvExit' = drvExit
                ELSE /\ drvOps' = drvOps
                     /\ drvPc' = "exited" /\ drvExit' = 1
    /\ UNCHANGED <<inVars, cfg, level, caps, fsuid, setup, execRes, handle,
                   waitCalls, log, otherVars>>

\* Enclosure::spawn: parse_clone_flags(); a requested namespace the kernel
\* lacks is an error
SpawnParseFlags ==
    /\ drvPc = "parse_flags"
    /\ \E supported \in {CloneFlagsAll, CloneFlagsAll \ {"CLONE_NEWUSER"}} :
          LET requested == IF cfg.unshare_user THEN {"CLONE_NEWUSER"} ELSE {}
              r == NamespaceOptions_parse(FALSE, requested, supported)
          IN IF ~r.ok
             THEN drvPc' = "exited" /\ drvExit' = 1
             ELSE drvPc' = "open_proc" /\ drvExit' = drvExit
    /\ UNCHANGED <<inVars, cfg, level, caps, nnp, fsuid, drvOps, setup, execRes,
                   handle, waitCalls, log, otherVars>>

\* Enclosure::spawn: open("/proc", O_PATH)
SpawnOpenProc ==
    /\ drvPc = "open_proc"
    /\ \E ok \in BOOLEAN :
          IF ok
          THEN drvOps' = Append(drvOps, "open_proc") /\ drvPc' = "setns" /\ drvExit' = drvExit
          ELSE drvOps' = drvOps /\ drvPc' = "exited" /\ drvExit' = 1
    /\ UNCHANGED <<inVars, cfg, level, caps, nnp, fsuid, setup, execRes, handle,
                   waitCalls, log, otherVars>>

\* Enclosure::spawn: setns(userns fd, flags) when --userns was given.  Joining
\* a user namespace gives the caller every capability in it.
SpawnSetns ==
    /\ drvPc = "setns"
    /\ IF cfg.userns = "none"
       THEN /\ drvPc' = "builder"
            /\ UNCHANGED <<caps, drvOps, drvExit>>
       ELSE \E ok \in BOOLEAN :
               IF ok /\ cfg.userns = "valid"
               THEN /\ caps' = FullCaps /\ drvOps' = Append(drvOps, "setns_userns")
                    /\ drvPc' = "builder" /\ drvExit' = drvExit
               ELSE /\ caps' = caps /\ drvOps' = drvOps
                    /\ drvPc' = "exited" /\ drvExit' = 1
    /\ UNCHANGED <<inVars, cfg, level, nnp, fsuid, setup, execRes, handle,
                   waitCalls, log, otherVars>>

\* JailerBuilder::new: Notifier::new() and ErrorReporter::new()
JailerBuilderNew ==
    /\ drvPc = "builder"
    /\ \E ok \in BOOLEAN :
          IF ok
          THEN /\ efd' = 0 /\ pipe' = <<>>
               /\ drvOps' = drvOps \o <<"eventfd", "pipe2">>
               /\ drvPc' = "clone" /\ drvExit' = drvExit
          ELSE /\ efd' = efd /\ pipe' = pipe /\ drvOps' = drvOps
               /\ drvPc' = "exited" /\ drvExit' = 1
    /\ UNCHANGED <<inVars, cfg, level, caps, nnp, fsuid, setup, execRes, handle,
                   waitCalls, log, chVars, repVars, privVars>>

\* Jailer::spawn_child: GuardedStack::new, clone(), JailHandle::new
SpawnChild ==
    /\ drvPc = "clone"
    /\ \E ok \in BOOLEAN :
          IF ok
          THEN /\ drvOps' = Append(drvOps, "clone")
               /\ handle' = [exists |-> TRUE, waited |-> FALSE, dropped |-> FALSE]
               /\ chPc' = "wait" /\ chStatus' = Alive
               /\ drvPc' = "parent_setup" /\ drvExit' = drvExit
          ELSE /\ drvOps' = drvOps /\ handle' = handle
               /\ chPc' = chPc /\ chStatus' = chStatus
               /\ drvPc' = "exited" /\ drvExit' = 1
    /\ UNCHANGED <<inVars, cfg, level, caps, nnp, fsuid, setup, execRes,
                   waitCalls, log, chStep, chOps, efd, pipe, repVars, privVars>>

\* JailHandle::execute: the parent closure (Enclosure::configure_parent)
ConfigureParent ==
    /\ drvPc = "parent_setup"
    /\ \E sOk \in BOOLEAN :
          LET sw     == cfg.switch_userns
              joined == sw = "valid" /\ sOk
              swOk   == sw = "none" \/ joined
              r      == clear_unprivileged_capabilities(IF joined THEN FullCaps ELSE caps)
              ok     == swOk /\ r.ok
          IN /\ caps' = IF swOk THEN r.caps ELSE caps
             /\ drvOps' = drvOps
                     \o parent_idmap_ops(level = "Setuid", cfg.unshare_user)
                     \o (IF joined THEN <<"setns_switch_userns">> ELSE <<>>)
                     \o (IF ok THEN <<"capset_clear">> ELSE <<>>)
             /\ setup' = IF ok THEN "ok" ELSE "err"
             /\ execRes' = IF ok THEN execRes ELSE Err("Parent setup failed")
             /\ drvPc' = execute_next(ok)
    /\ UNCHANGED <<inVars, cfg, level, nnp, fsuid, drvExit, handle, waitCalls,
                   log, otherVars>>

\* JailHandle::execute: notifier.signal() writes 1 to the eventfd
ExecuteSignal ==
    /\ drvPc = "signal"
    /\ efd' = eventfd_write(efd)
    /\ drvOps' = Append(drvOps, "signal")
    /\ drvPc' = "wait"
    /\ UNCHANGED <<inVars, cfg, level, caps, nnp, fsuid, drvExit, setup, execRes,
                   handle, waitCalls, log, chVars, pipe, repVars, privVars>>

\* JailHandle::wait: waitpid(pid, None) blocks while the child is alive
HandleWait ==
    /\ drvPc = "wait"
    /\ chStatus.kind \notin {"None", "Alive"}
    /\ execRes' = JailHandle_wait(chStatus)
    /\ handle' = [handle EXCEPT !.waited = TRUE]
    /\ waitCalls' = waitCalls + 1
    /\ drvPc' = "return"
    /\ UNCHANGED <<inVars, cfg, level, caps, nnp, fsuid, drvExit, drvOps, setup,
                   log, otherVars>>

\* Enclosure::spawn_inner and Enclosure::spawn return; the JailHandle is dropped
SpawnInnerReturn ==
    /\ drvPc = "return"
    /\ execRes' = spawn_inner_result(execRes)
    /\ log' = log \cup drop_log(handle, chStatus)
    /\ handle' = [handle EXCEPT !.waited = drop_waited(handle, chStatus),
                                !.dropped = TRUE]
    /\ drvPc' = "main_ret"
    /\ UNCHANGED <<inVars, cfg, level, caps, nnp, fsuid, drvExit, drvOps, setup,
                   waitCalls, otherVars>>

\* main returns the Result of spawn
MainReturn ==
    /\ drvPc = "main_ret"
    /\ drvExit' = main_exit(execRes)
    /\ drvPc' = "exited"
    /\ UNCHANGED <<inVars, cfg, level, caps, nnp, fsuid, drvOps, setup, execRes,
                   handle, waitCalls, log, otherVars>>

----------------------------------------------------------------------------
(* The child (Jailer::child_main)                                          *)

\* notifier.wait_for_signal(): a blocking read that resets the counter
ChildWait ==
    /\ chPc = "wait"
    /\ EventfdReadable(efd)
    /\ efd' = 0
    /\ chPc' = "ctx_init"
    /\ UNCHANGED <<drvVars, chStep, chOps, chStatus, pipe, repVars, privVars>>

\* GlobalContext::init() in the child
ChildContextInit ==
    /\ chPc = "ctx_init"
    /\ chOps' = Append(chOps, <<"context_init", "", "">>)
    /\ chStep' = 1
    /\ chPc' = "prepare"
    /\ UNCHANGED <<drvVars, chStatus, efd, pipe, repVars, privVars>>

\* One system call of Jail::prepare.  A failure makes child_main return the
\* error: create_child_callback prints it and the child exits with 1.
ChildPrepareStep ==
    /\ chPc = "prepare"
    /\ LET steps == PrepareSteps(level = "Setuid", cfg.unshare_user)
       IN \E ok \in BOOLEAN :
             IF ok
             THEN /\ chOps' = Append(chOps, steps[chStep])
                  /\ chStep' = chStep + 1
                  /\ chPc' = IF chStep = Len(steps) THEN "exec" ELSE "prepare"
                  /\ chStatus' = chStatus
             ELSE /\ chOps' = chOps /\ chStep' = chStep
                  /\ chPc' = "prep_failed"
                  /\ chStatus' = Exited(1)
    /\ UNCHANGED <<drvVars, efd, pipe, repVars, privVars>>

\* Jail::execute: execvp of the target
ChildExec ==
    /\ chPc = "exec"
    /\ \E ok \in BOOLEAN :
          IF ok
          THEN chOps' = Append(chOps, ExecStep) /\ chPc' = "target" /\ chStatus' = chStatus
          ELSE chOps' = chOps /\ chPc' = "exec_failed" /\ chStatus' = Exited(1)
    /\ UNCHANGED <<drvVars, chStep, efd, pipe, repVars, privVars>>

\* The sandboxed program exits
TargetExit ==
    /\ chPc = "target"
    /\ \E c \in ExitCodes : chStatus' = Exited(c)
    /\ chPc' = "target_done"
    /\ UNCHANGED <<drvVars, chStep, chOps, efd, pipe, repVars, privVars>>

\* The sandboxed program is killed by a signal
TargetKilled ==
    /\ chPc = "target"
    /\ \E s \in Signals : chStatus' = Signaled(s)
    /\ chPc' = "target_done"
    /\ UNCHANGED <<drvVars, chStep, chOps, efd, pipe, repVars, privVars>>

----------------------------------------------------------------------------
(* Spec: driver and child                                                  *)

NoIdMap     == [in |-> [uid |-> 0, gid |-> 0, ruid |-> 0, guid |-> 0,
                            overflow |-> [uid |-> 0, gid |-> 0],
                            deny_groups |-> FALSE, map_root |-> FALSE],
                pc |-> 0, writes |-> <<>>, res |-> "none"]
NoMapping   == [base |-> 0, len |-> 0, prot |-> <<>>]
NoStack     == [s |-> 0, pc |-> "idle", res |-> "none", err |-> "",
                mapping |-> NoMapping, stack |-> 0, size |-> 0,
                slice |-> [ptr |-> 0, len |-> 0]]
NoMountOptions ==
    [bind |-> <<>>, dev_bind |-> <<>>, ro_bind |-> <<>>, proc |-> <<>>, dev |-> <<>>,
     tmpfs |-> <<>>, mqueue |-> <<>>, dir |-> <<>>, file |-> <<>>, symlink |-> <<>>,
     remount_ro |-> <<>>, chmod |-> <<>>, perms |-> <<>>, size |-> <<>>]
NoMount     == [opts |-> NoMountOptions, pc |-> "idle", wpc |-> "none", plan |-> <<>>,
                i |-> 0, ops |-> <<>>, performed |-> <<>>, wcaps |-> {}, res |-> "none"]
NoJh        == [reaped |-> FALSE, n |-> 0, calls |-> <<>>]
NoFlagsCall == [unshare_all |-> FALSE, requested |-> {}, supported |-> {}, res |-> NoRes]
NoCapCall   == [fn |-> "none", requested |-> {}, permissive |-> FALSE, ok |-> TRUE]
NoCheck     == [done |-> FALSE, ok |-> TRUE, msg |-> <<>>, after |-> 0]
IdleReport  == written = <<>> /\ checked = NoCheck
NoPrivsep == [wres |-> "none", wstatus |-> NoChild, reaped |-> FALSE, pc |-> "none",
              result |-> "none", line |-> "none"]
IdlePrivsep ==
    /\ sock = <<>> /\ sent = <<>> /\ delivered = <<>> /\ lsn = "idle" /\ wopen = FALSE
    /\ ps = NoPrivsep

Init ==
    /\ ruid \in Uids /\ euid \in Uids /\ hasCaps \in BOOLEAN
    /\ args \in ArgSpace
    /\ cfg = NoArgs
    /\ level = "unset"
    /\ caps = IF hasCaps THEN FullCaps ELSE EmptyCaps
    /\ nnp = FALSE
    /\ fsuid = euid
    /\ drvPc = "main_init" /\ drvExit = -1 /\ drvOps = <<>>
    /\ setup = "none" /\ execRes = NoRes
    /\ handle = NoHandle /\ waitCalls = 0 /\ log = {}
    /\ chPc = "none" /\ chStep = 0 /\ chOps = <<>> /\ chStatus = NoChild
    /\ efd = 0 /\ pipe = <<>>
    /\ capCall = NoCapCall /\ idm = NoIdMap /\ stk = NoStack /\ mnt = NoMount /\ jh = NoJh /\ flagsCall = NoFlagsCall
    /\ IdleReport /\ IdlePrivsep

Next ==
    \/ MainInit
    \/ ConfigParse
    \/ EnclosureConfigureCaps
    \/ ApplyNoNewPrivs
    \/ SpawnParseFlags
    \/ SpawnOpenProc
    \/ SpawnSetns
    \/ JailerBuilderNew
    \/ SpawnChild
    \/ ConfigureParent
    \/ ExecuteSignal
    \/ HandleWait
    \/ SpawnInnerReturn
    \/ MainReturn
    \/ ChildWait
    \/ ChildContextInit
    \/ ChildPrepareStep
    \/ ChildExec
    \/ TargetExit
    \/ TargetKilled

Spec == Init /\ [][Next]_vars

\* The driver and the child are two processes the kernel schedules whenever
\* they can run; the sandboxed program may run for ever
SpecFair ==
    /\ Init /\ [][Next]_vars
    /\ WF_vars(ExecuteSignal) /\ WF_vars(HandleWait)
    /\ WF_vars(ChildWait) /\ WF_vars(ChildContextInit)
    /\ WF_vars(ChildPrepareStep) /\ WF_vars(ChildExec)

----------------------------------------------------------------------------
(* SpecWait: JailHandle::wait and the driver's return path, from every     *)
(* status waitpid can hand back                                            *)

WaitStatuses ==
    {Exited(c) : c \in ExitCodes} \cup {Signaled(s) : s \in Signals}
    \cup {[kind |-> k, val |-> 0] :
            k \in {"Stopped", "PtraceEvent", "PtraceSyscall", "Continued", "StillAlive"}}

InitWait ==
    /\ ruid = 1000 /\ euid = 1000 /\ hasCaps = FALSE
    /\ args = NoArgs
    /\ cfg = MainConfig(NoArgs, "Rootless", 1000)
    /\ level = "Rootless"
    /\ caps = [EmptyCaps EXCEPT !.bnd = AllCaps]
    /\ nnp = TRUE
    /\ fsuid = 1000
    /\ drvPc = "wait" /\ drvExit = -1
    /\ drvOps = <<"prctl_no_new_privs", "open_proc", "eventfd", "pipe2", "clone",
                  "capset_clear", "signal">>
    /\ setup = "ok" /\ execRes = NoRes
    /\ handle = [exists |-> TRUE, waited |-> FALSE, dropped |-> FALSE]
    /\ waitCalls = 0 /\ log = {}
    /\ chPc = "target_done" /\ chStep = 0 /\ chOps = <<>>
    /\ chStatus \in WaitStatuses
    /\ efd = 0 /\ pipe = <<>>
    /\ capCall = NoCapCall /\ idm = NoIdMap /\ stk = NoStack /\ mnt = NoMount /\ jh = NoJh /\ flagsCall = NoFlagsCall
    /\ IdleReport /\ IdlePrivsep

NextWait ==
    \/ HandleWait
    \/ SpawnInnerReturn
    \/ MainReturn

SpecWait == InitWait /\ [][NextWait]_vars

----------------------------------------------------------------------------
(* SpecReport: the ErrorReporter (report.rs) over a non-blocking pipe      *)

MaxReports == 3

\* Error messages as UTF-8 byte strings: "a", "ab", "é", "bé"
Messages == { <<97>>, <<97, 98>>, <<195, 169>>, <<98, 195, 169>> }

\* String::from_utf8 for strings of one- and two-byte characters
RECURSIVE IsUtf8(_)
IsUtf8(b) ==
    IF b = <<>> THEN TRUE
    ELSE IF b[1] < 128 THEN IsUtf8(Tail(b))
    ELSE IF b[1] \in 194..223 /\ Len(b) >= 2 /\ b[2] \in 128..191
         THEN IsUtf8(Tail(Tail(b)))
         ELSE FALSE

Min(a, b) == IF a < b THEN a ELSE b

\* Length of the buffer read_error_message_inner hands to read(): Vec::new()
ReadBufferLen == 0

\* read(2) on the O_NONBLOCK read end with a buffer of `count` bytes: a null
\* read returns 0; an empty pipe gives EAGAIN while a writer holds the other
\* end and 0 once all writers are gone; otherwise up to `count` bytes
PipeRead(p, count, writerOpen) ==
    IF count = 0 THEN [errno |-> "", n |-> 0, data |-> <<>>, rest |-> p]
    ELSE IF p = <<>>
         THEN IF writerOpen
              THEN [errno |-> "EAGAIN", n |-> 0, data |-> <<>>, rest |-> p]
              ELSE [errno |-> "", n |-> 0, data |-> <<>>, rest |-> p]
         ELSE LET n == Min(count, Len(p))
              IN [errno |-> "", n |-> n, data |-> SubSeq(p, 1, n),
                  rest |-> SubSeq(p, n + 1, Len(p))]

\* read_error_message_inner: Ok(String) or the error of read / from_utf8
read_error_message_inner(p) ==
    LET r == PipeRead(p, ReadBufferLen, TRUE)
    IN IF r.errno # "" THEN [ok |-> FALSE, err |-> r.errno, msg |-> <<>>, rest |-> r.rest]
       ELSE IF r.n = 0 THEN [ok |-> TRUE, err |-> "", msg |-> <<>>, rest |-> r.rest]
       ELSE IF IsUtf8(r.data)
            THEN [ok |-> TRUE, err |-> "", msg |-> r.data, rest |-> r.rest]
            ELSE [ok |-> FALSE, err |-> "invalid UTF-8", msg |-> <<>>, rest |-> r.rest]

\* ErrorReporter::check_for_reported_errors: Ok, or an error carrying msg
check_for_reported_errors(p) ==
    LET r == read_error_message_inner(p)
    IN IF r.ok /\ r.msg # <<>> THEN [ok |-> FALSE, msg |-> r.msg, rest |-> r.rest]
       ELSE IF r.ok THEN [ok |-> TRUE, msg |-> <<>>, rest |-> r.rest]
       ELSE IF r.err = "EAGAIN" THEN [ok |-> TRUE, msg |-> <<>>, rest |-> r.rest]
       ELSE [ok |-> FALSE, msg |-> <<>>, rest |-> r.rest]

\* ErrorReporter::report_error: one write of the message bytes
ReportError ==
    /\ Len(written) < MaxReports
    /\ \E m \in Messages :
          /\ pipe' = pipe \o m
          /\ written' = Append(written, m)
    /\ UNCHANGED <<drvVars, chVars, efd, checked, privVars>>

\* ErrorReporter::check_for_reported_errors
CheckForReportedErrors ==
    /\ LET r == check_for_reported_errors(pipe)
       IN /\ checked' = [done |-> TRUE, ok |-> r.ok, msg |-> r.msg, after |-> Len(written)]
          /\ pipe' = r.rest
    /\ UNCHANGED <<drvVars, chVars, efd, written, privVars>>

\* The state after JailerBuilder::new in a rootless run; no child is involved
InitReport ==
    /\ ruid = 1000 /\ euid = 1000 /\ hasCaps = FALSE
    /\ args = NoArgs
    /\ cfg = MainConfig(NoArgs, "Rootless", 1000)
    /\ level = "Rootless"
    /\ caps = EmptyCaps
    /\ nnp = TRUE
    /\ fsuid = 1000
    /\ drvPc = "clone" /\ drvExit = -1
    /\ drvOps = <<"prctl_no_new_privs", "open_proc", "eventfd", "pipe2">>
    /\ setup = "none" /\ execRes = NoRes
    /\ handle = NoHandle /\ waitCalls = 0 /\ log = {}
    /\ chPc = "none" /\ chStep = 0 /\ chOps = <<>> /\ chStatus = NoChild
    /\ efd = 0 /\ pipe = <<>>
    /\ capCall = NoCapCall /\ idm = NoIdMap /\ stk = NoStack /\ mnt = NoMount /\ jh = NoJh /\ flagsCall = NoFlagsCall
    /\ IdleReport /\ IdlePrivsep

NextReport ==
    \/ ReportError
    \/ CheckForReportedErrors

SpecReport == InitReport /\ [][NextReport]_vars

----------------------------------------------------------------------------
(* SpecCaps: Enclosure::new at level Setuid from the capability states a   *)
(* set-user-ID start can have                                              *)

\* Bounding sets a container may leave, and Permitted = Effective inside them
\* (execve of a set-user-ID-root program: Permitted = Effective = Bounding,
\* Inheritable as inherited, Ambient cleared)
StartBounding ==
    {AllCaps, SETUID_CAPABILITIES, SETUID_CAPABILITIES \cup {"CAP_SETPCAP"}, {}}
    \cup {AllCaps \ {x} : x \in AllCaps}
StartCaps ==
    {[eff |-> b, perm |-> b, inh |-> i, bnd |-> b, amb |-> {}] :
        b \in StartBounding, i \in {{}, {"CAP_CHOWN"}}}

InitCaps ==
    /\ ruid = 1000 /\ euid = 0
    /\ caps \in StartCaps
    /\ hasCaps = (caps.perm # {})
    /\ args = NoArgs /\ cfg = NoArgs
    /\ level = "Setuid"
    /\ nnp = FALSE
    /\ fsuid = 0
    /\ drvPc = "caps" /\ drvExit = -1 /\ drvOps = <<>>
    /\ setup = "none" /\ execRes = NoRes
    /\ handle = NoHandle /\ waitCalls = 0 /\ log = {}
    /\ chPc = "none" /\ chStep = 0 /\ chOps = <<>> /\ chStatus = NoChild
    /\ efd = 0 /\ pipe = <<>>
    /\ capCall = NoCapCall /\ idm = NoIdMap /\ stk = NoStack /\ mnt = NoMount /\ jh = NoJh /\ flagsCall = NoFlagsCall
    /\ IdleReport /\ IdlePrivsep

\* The sets a caller asks retain_requested_capabilities to keep
RequestedSets == {{}, SETUID_CAPABILITIES, AllCaps, {"CAP_CHOWN", "CAP_SETPCAP"}}

\* A direct call of retain_requested_capabilities(requested) on a manager built
\* with either value of permissive_mode
RetainRequested ==
    /\ drvPc = "caps" /\ capCall = NoCapCall
    /\ \E requested \in RequestedSets, permissive \in BOOLEAN :
          LET r == retain_with_config(caps, requested, permissive)
          IN /\ caps' = r.caps
             /\ capCall' = [fn |-> "retain", requested |-> requested,
                            permissive |-> permissive, ok |-> r.ok]
    /\ drvPc' = "retained"
    /\ UNCHANGED <<ruid, euid, hasCaps, flagsCall, idm, stk, mnt, jh, args, cfg, level, nnp, fsuid, drvExit,
                   drvOps, setup, execRes, handle, waitCalls, log, otherVars>>

NextCaps ==
    \/ EnclosureConfigureCaps
    \/ ApplyNoNewPrivs
    \/ RetainRequested

SpecCaps == InitCaps /\ [][NextCaps]_vars

----------------------------------------------------------------------------
(* SpecFlags: NamespaceOptions::parse over switches and kernels            *)

\* The switches and kernel features that vary; the other flags are not
\* requested and are supported
VariedFlags == {"CLONE_NEWCGROUP", "CLONE_NEWUSER", "CLONE_NEWNS", "CLONE_NEWPID"}

InitFlags ==
    /\ ruid = 1000 /\ euid = 1000 /\ hasCaps = FALSE
    /\ capCall = NoCapCall /\ idm = NoIdMap /\ stk = NoStack /\ mnt = NoMount /\ jh = NoJh
    /\ flagsCall \in [unshare_all : BOOLEAN, requested : SUBSET VariedFlags,
                       supported : {CloneFlagsAll \ u : u \in SUBSET VariedFlags},
                       res : {NoRes}]
    /\ args = NoArgs /\ cfg = NoArgs
    /\ level = "Rootless"
    /\ caps = EmptyCaps
    /\ nnp = TRUE
    /\ fsuid = 1000
    /\ drvPc = "parse_flags" /\ drvExit = -1 /\ drvOps = <<>>
    /\ setup = "none" /\ execRes = NoRes
    /\ handle = NoHandle /\ waitCalls = 0 /\ log = {}
    /\ chPc = "none" /\ chStep = 0 /\ chOps = <<>> /\ chStatus = NoChild
    /\ efd = 0 /\ pipe = <<>>
    /\ IdleReport /\ IdlePrivsep

\* Config::parse_clone_flags
ParseCloneFlags ==
    /\ drvPc = "parse_flags" /\ flagsCall.res = NoRes
    /\ flagsCall' = [flagsCall EXCEPT !.res =
           NamespaceOptions_parse(flagsCall.unshare_all, flagsCall.requested,
                                  flagsCall.supported)]
    /\ drvPc' = "flags_parsed"
    /\ UNCHANGED <<ruid, euid, hasCaps, capCall, idm, stk, mnt, jh, args, cfg, level, caps, nnp, fsuid,
                   drvExit, drvOps, setup, execRes, handle, waitCalls, log, otherVars>>

NextFlags == ParseCloneFlags

SpecFlags == InitFlags /\ [][NextFlags]_vars

----------------------------------------------------------------------------
(* SpecStack: GuardedStack (stack.rs) over an address word of WordBits bits *)

WordBits  == 8
PageSize  == 16
\* Addresses a process can map: the low part of the address word
UserSpace == 128

UsizeMax == 2^WordBits - 1

\* usize::checked_add
checked_add(a, b) == IF a + b > UsizeMax THEN Err("overflow") ELSE Ok(a + b)

\* A variant of the size test that accepts every non-zero size
stack_size_valid_any_nonzero(stack_size, page_size) ==
    ~(stack_size = 0)

\* The size test of GuardedStack::new
stack_size_valid(stack_size, page_size) ==
    ~(stack_size = 0 \/ stack_size % page_size # 0)

\* A variant that protects the first page of the mapping
guard_addr_at_base(base_ptr, stack_size) == base_ptr

\* base_ptr.add(stack_size)
guard_addr(base_ptr, stack_size) == base_ptr + stack_size

\* The addresses an anonymous mapping of len bytes can be placed at
MmapBases(len) ==
    {b \in PageSize..UserSpace : b % PageSize = 0 /\ b + len <= UserSpace}

\* The protection of the page that holds address a, "" outside the mapping
ProtAt(m, a) ==
    IF a >= m.base /\ a < m.base + m.len
    THEN m.prot[((a - m.base) \div PageSize) + 1]
    ELSE ""

\* mprotect(addr, len, PROT_NONE) on a mapping
Mprotect(m, addr, len) ==
    [m EXCEPT !.prot = [i \in DOMAIN m.prot |->
        LET lo == m.base + (i - 1) * PageSize
        IN IF lo + PageSize > addr /\ lo < addr + len THEN "NONE" ELSE m.prot[i]]]

InitStack ==
    /\ ruid = 1000 /\ euid = 1000 /\ hasCaps = FALSE
    /\ capCall = NoCapCall /\ flagsCall = NoFlagsCall /\ idm = NoIdMap
    /\ stk \in [s : 0..UsizeMax, pc : {"new"}, res : {"none"}, err : {""},
                mapping : {NoMapping}, stack : {0}, size : {0},
                slice : {[ptr |-> 0, len |-> 0]}]
    /\ mnt = NoMount /\ jh = NoJh
    /\ args = NoArgs /\ cfg = NoArgs
    /\ level = "Rootless"
    /\ caps = EmptyCaps
    /\ nnp = TRUE
    /\ fsuid = 1000
    /\ drvPc = "spawn_child" /\ drvExit = -1 /\ drvOps = <<>>
    /\ setup = "none" /\ execRes = NoRes
    /\ handle = [exists |-> FALSE, waited |-> FALSE, dropped |-> FALSE]
    /\ waitCalls = 0 /\ log = {}
    /\ chPc = "none" /\ chStep = 1 /\ chOps = <<>> /\ chStatus = Alive
    /\ efd = 0 /\ pipe = <<>>
    /\ IdleReport /\ IdlePrivsep

StackUnchanged ==
    UNCHANGED <<ruid, euid, hasCaps, capCall, flagsCall, idm, mnt, jh, args, cfg, level, caps, nnp,
                fsuid, drvPc, drvExit, drvOps, setup, execRes, handle, waitCalls, log,
                otherVars>>

\* GuardedStack::new up to the mapping: page size, size test, checked_add, mmap
GuardedStackNew ==
    /\ stk.pc = "new"
    /\ \E sysconfOk \in BOOLEAN, mmapOk \in BOOLEAN :
          LET total == checked_add(stk.s, PageSize)
              fail(e) == stk' = [stk EXCEPT !.pc = "returned", !.res = "err", !.err = e]
          IN IF ~sysconfOk THEN fail("page_size")
             ELSE IF ~stack_size_valid(stk.s, PageSize) THEN fail("stack_size")
             ELSE IF ~total.ok THEN fail("overflow")
             ELSE IF ~mmapOk \/ MmapBases(total.val) = {} THEN fail("mmap")
             ELSE \E b \in MmapBases(total.val) :
                    stk' = [stk EXCEPT
                      !.pc = "mapped",
                      !.mapping = [base |-> b, len |-> total.val,
                                   prot |-> [i \in 1..(total.val \div PageSize) |-> "RW"]]]
    /\ StackUnchanged

\* GuardedStack::new from mprotect on: a failure returns the error and drops
\* the mapping, a success builds the handle
GuardedStackProtect ==
    /\ stk.pc = "mapped"
    /\ \E ret \in {0, -1} :
          IF ret # 0
          THEN stk' = [stk EXCEPT !.pc = "returned", !.res = "err", !.err = "mprotect",
                                  !.mapping = NoMapping]
          ELSE stk' = [stk EXCEPT
                  !.pc = "returned", !.res = "ok",
                  !.mapping = Mprotect(stk.mapping,
                                       guard_addr(stk.mapping.base, stk.s), PageSize),
                  !.stack = stk.mapping.base,
                  !.size = stk.s]
    /\ StackUnchanged

\* GuardedStack::as_mut_slice
GuardedStackAsMutSlice ==
    /\ stk.pc = "returned" /\ stk.res = "ok"
    /\ stk' = [stk EXCEPT !.slice = [ptr |-> stk.stack, len |-> stk.size]]
    /\ StackUnchanged

\* The GuardedStack is dropped and its mapping is unmapped
GuardedStackDrop ==
    /\ stk.pc = "returned" /\ stk.res = "ok"
    /\ stk' = [stk EXCEPT !.pc = "dropped", !.mapping = NoMapping]
    /\ StackUnchanged

NextStack ==
    \/ GuardedStackNew
    \/ GuardedStackProtect
    \/ GuardedStackAsMutSlice
    \/ GuardedStackDrop

SpecStack == InitStack /\ [][NextStack]_vars

----------------------------------------------------------------------------
(* SpecIdMap: IdMapWriter::write over its inputs                           *)

SandboxIds == {0, 1000, 2000}
RealIds    == {0, 1000}
OverflowId == 65534

IdMapInputs ==
    [uid : SandboxIds, gid : SandboxIds, ruid : RealIds, guid : RealIds,
     overflow : {[uid |-> OverflowId, gid |-> OverflowId]},
     deny_groups : BOOLEAN, map_root : BOOLEAN]

InitIdMap ==
    /\ ruid = 1000 /\ euid = 1000 /\ hasCaps = FALSE
    /\ capCall = NoCapCall /\ flagsCall = NoFlagsCall
    /\ idm \in [in : IdMapInputs, pc : {1}, writes : {<<>>}, res : {"none"}]
    /\ stk = NoStack /\ mnt = NoMount /\ jh = NoJh
    /\ args = NoArgs /\ cfg = NoArgs
    /\ level = "Rootless"
    /\ caps = EmptyCaps
    /\ nnp = TRUE
    /\ fsuid = 1000
    /\ drvPc = "wait" /\ drvExit = -1 /\ drvOps = <<>>
    /\ setup = "ok" /\ execRes = NoRes
    /\ handle = [exists |-> TRUE, waited |-> FALSE, dropped |-> FALSE]
    /\ waitCalls = 0 /\ log = {}
    /\ chPc = "prepare" /\ chStep = 1 /\ chOps = <<>> /\ chStatus = Alive
    /\ efd = 0 /\ pipe = <<>>
    /\ IdleReport /\ IdlePrivsep

\* One system call of IdMapWriter::write, in the order of IdMapWriteSteps; the
\* first failure is returned and nothing later is written
IdMapWriterWrite ==
    /\ idm.res = "none"
    /\ LET steps == IdMapWriteSteps(idm.in.deny_groups)
           step  == steps[idm.pc]
           maps  == IdMapWriter_maps(idm.in)
           text  == CASE step[2] = "setgroups" -> <<"deny">>
                      [] step[2] = "uid_map"   -> maps.uid_map
                      [] step[2] = "gid_map"   -> maps.gid_map
                      [] OTHER                 -> <<>>
       IN \E ok \in BOOLEAN :
             IF ~ok
             THEN idm' = [idm EXCEPT !.res = "err"]
             ELSE idm' = [idm EXCEPT
                            !.pc = idm.pc + 1,
                            !.writes = IF step[1] = "write"
                                       THEN Append(idm.writes, <<step[2], text>>)
                                       ELSE idm.writes,
                            !.res = IF idm.pc = Len(steps) THEN "ok" ELSE "none"]
    /\ UNCHANGED <<ruid, euid, hasCaps, capCall, flagsCall, stk, mnt, jh, args, cfg, level, caps,
                   nnp, fsuid, drvPc, drvExit, drvOps, setup, execRes, handle, waitCalls,
                   log, otherVars>>

NextIdMap == IdMapWriterWrite

SpecIdMap == InitIdMap /\ [][NextIdMap]_vars

----------------------------------------------------------------------------
(* MountCommand and its bincode encoding (config.rs; bincode's standard    *)
(* configuration: little endian, variable-length integers)                 *)

\* A command is [tag, f]: tag is the path of enum variant indexes in
\* declaration order and f the fields of the variant in declaration order.
\* Paths and strings are byte sequences; Option<T> is <<>> or <<x>>.
Bind(source, target, readonly, mount_dev) ==
    [tag |-> <<0, 0>>, f |-> <<source, target, readonly, mount_dev>>]
Overlay(lowerdir, upperdir, workdir, target, mode) ==
    [tag |-> <<0, 1>>, f |-> <<lowerdir, upperdir, workdir, target, mode>>]
Proc(path)   == [tag |-> <<0, 2, 0>>, f |-> <<path>>]
Dev(path)    == [tag |-> <<0, 2, 1>>, f |-> <<path>>]
Tmpfs(target, size_kb, mode) == [tag |-> <<0, 2, 2>>, f |-> <<target, size_kb, mode>>]
Mqueue(path) == [tag |-> <<0, 2, 3>>, f |-> <<path>>]
OverlaySource(lowerdir, upperdir, workdir) ==
    [tag |-> <<0, 2, 4>>, f |-> <<lowerdir, upperdir, workdir>>]
CreateDir(path) == [tag |-> <<1, 0>>, f |-> <<path>>]
CreateFile(fd, dest) == [tag |-> <<1, 1>>, f |-> <<fd, dest>>]
CreateBindFile(source, dest, readonly) == [tag |-> <<1, 2>>, f |-> <<source, dest, readonly>>]
CreateSymlink(link_path, target) == [tag |-> <<1, 3>>, f |-> <<link_path, target>>]
RemountReadOnly(path) == [tag |-> <<1, 4>>, f |-> <<path>>]
SetHostname(name) == [tag |-> <<2, 0>>, f |-> <<name>>]
Chmod(path, mode) == [tag |-> <<2, 1>>, f |-> <<path, mode>>]

\* The field types of each variant, in declaration order
Schema(tag) ==
    CASE tag = <<0, 0>>    -> <<"str", "str", "bool", "bool">>
      [] tag = <<0, 1>>    -> <<"str", "optstr", "optstr", "str", "enum2">>
      [] tag = <<0, 2, 0>> -> <<"str">>
      [] tag = <<0, 2, 1>> -> <<"str">>
      [] tag = <<0, 2, 2>> -> <<"str", "optusize", "optu32">>
      [] tag = <<0, 2, 3>> -> <<"str">>
      [] tag = <<0, 2, 4>> -> <<"str", "str", "str">>
      [] tag = <<1, 0>>    -> <<"str">>
      [] tag = <<1, 1>>    -> <<"i32", "str">>
      [] tag = <<1, 2>>    -> <<"str", "str", "bool">>
      [] tag = <<1, 3>>    -> <<"str", "str">>
      [] tag = <<1, 4>>    -> <<"str">>
      [] tag = <<2, 0>>    -> <<"str">>
      [] tag = <<2, 1>>    -> <<"str", "u32">>

\* Number of variants of the enum reached by a tag prefix; 0 when the prefix
\* already names a variant with fields only
VariantCount(prefix) ==
    CASE prefix = <<>>     -> 3
      [] prefix = <<0>>    -> 3
      [] prefix = <<0, 2>> -> 5
      [] prefix = <<1>>    -> 5
      [] prefix = <<2>>    -> 2
      [] OTHER             -> 0

\* Little-endian bytes of v (the model's integers stay below 2^31)
LEByte(v, i) ==
    CASE i = 1 -> v % 256
      [] i = 2 -> (v \div 256) % 256
      [] i = 3 -> (v \div 65536) % 256
      [] i = 4 -> v \div 16777216
      [] OTHER -> 0
LE(v, n) == [i \in 1..n |-> LEByte(v, i)]

\* bincode varint: one byte below 251, else a marker and 2, 4 or 8 bytes
EncU(v) ==
    IF v < 251 THEN <<v>>
    ELSE IF v < 65536 THEN <<251>> \o LE(v, 2)
    ELSE <<252>> \o LE(v, 4)

\* zigzag of a signed integer
ZigZag(n) == IF n >= 0 THEN 2 * n ELSE -2 * n - 1
UnZigZag(u) == IF u % 2 = 0 THEN u \div 2 ELSE -((u + 1) \div 2)

EncStr(x) == EncU(Len(x)) \o x

EncField(ty, x) ==
    CASE ty = "str"      -> EncStr(x)
      [] ty = "bool"     -> IF x THEN <<1>> ELSE <<0>>
      [] ty = "enum2"    -> EncU(x)
      [] ty = "u32"      -> EncU(x)
      [] ty = "i32"      -> EncU(ZigZag(x))
      [] ty = "optstr"   -> IF x = <<>> THEN <<0>> ELSE <<1>> \o EncStr(x[1])
      [] ty = "optusize" -> IF x = <<>> THEN <<0>> ELSE <<1>> \o EncU(x[1])
      [] ty = "optu32"   -> IF x = <<>> THEN <<0>> ELSE <<1>> \o EncU(x[1])

RECURSIVE EncFields(_, _)
EncFields(schema, f) ==
    IF schema = <<>> THEN <<>>
    ELSE EncField(Head(schema), Head(f)) \o EncFields(Tail(schema), Tail(f))

RECURSIVE EncTag(_)
EncTag(tag) == IF tag = <<>> THEN <<>> ELSE EncU(Head(tag)) \o EncTag(Tail(tag))

\* bincode::encode_to_vec(command, standard())
encode_to_vec(cmd) == EncTag(cmd.tag) \o EncFields(Schema(cmd.tag), cmd.f)

DOk(v, rest) == [ok |-> TRUE, val |-> v, rest |-> rest]
DErr(e)      == [ok |-> FALSE, val |-> e, rest |-> <<>>]

Drop(b, n) == SubSeq(b, n + 1, Len(b))

\* An unsigned varint of at most `width` bytes (4 for u32, 8 for u64 / usize)
DecU(b, width) ==
    IF b = <<>> THEN DErr("UnexpectedEnd")
    ELSE IF b[1] < 251 THEN DOk(b[1], Tail(b))
    ELSE IF b[1] = 251
         THEN IF Len(b) < 3 THEN DErr("UnexpectedEnd")
              ELSE DOk(b[2] + 256 * b[3], Drop(b, 3))
    ELSE IF b[1] = 252
         THEN IF Len(b) < 5 THEN DErr("UnexpectedEnd")
              ELSE IF b[5] >= 128 THEN DErr("beyond the model's integers")
              ELSE DOk(b[2] + 256 * b[3] + 65536 * b[4] + 16777216 * b[5], Drop(b, 5))
    ELSE IF b[1] = 253 /\ width = 8
         THEN IF Len(b) < 9 THEN DErr("UnexpectedEnd")
              ELSE DErr("beyond the model's integers")
    ELSE DErr("InvalidIntegerType")

DecStr(b) ==
    LET n == DecU(b, 8)
    IN IF ~n.ok THEN n
       ELSE IF Len(n.rest) < n.val THEN DErr("UnexpectedEnd")
       ELSE IF ~IsUtf8(SubSeq(n.rest, 1, n.val)) THEN DErr("Utf8")
       ELSE DOk(SubSeq(n.rest, 1, n.val), Drop(n.rest, n.val))

DecBool(b) ==
    IF b = <<>> THEN DErr("UnexpectedEnd")
    ELSE IF b[1] = 0 THEN DOk(FALSE, Tail(b))
    ELSE IF b[1] = 1 THEN DOk(TRUE, Tail(b))
    ELSE DErr("InvalidBooleanValue")

\* An enum variant index: a u32 varint below the number of variants
DecVariant(b, count) ==
    LET n == DecU(b, 4)
    IN IF ~n.ok THEN n
       ELSE IF n.val >= count THEN DErr("UnexpectedVariant")
       ELSE n

DecI32(b) ==
    LET n == DecU(b, 4)
    IN IF ~n.ok THEN n ELSE DOk(UnZigZag(n.val), n.rest)

\* Option<T>: a byte 0, or a byte 1 and the value
DecOpt(b, inner) ==
    IF b = <<>> THEN DErr("UnexpectedEnd")
    ELSE IF b[1] = 0 THEN DOk(<<>>, Tail(b))
    ELSE IF b[1] = 1
         THEN LET r == CASE inner = "str"   -> DecStr(Tail(b))
                         [] inner = "usize" -> DecU(Tail(b), 8)
                         [] inner = "u32"   -> DecU(Tail(b), 4)
              IN IF r.ok THEN DOk(<<r.val>>, r.rest) ELSE r
    ELSE DErr("UnexpectedVariant")

DecField(ty, b) ==
    CASE ty = "str"      -> DecStr(b)
      [] ty = "bool"     -> DecBool(b)
      [] ty = "enum2"    -> DecVariant(b, 2)
      [] ty = "u32"      -> DecU(b, 4)
      [] ty = "i32"      -> DecI32(b)
      [] ty = "optstr"   -> DecOpt(b, "str")
      [] ty = "optusize" -> DecOpt(b, "usize")
      [] ty = "optu32"   -> DecOpt(b, "u32")

RECURSIVE DecFields(_, _, _)
DecFields(schema, b, acc) ==
    IF schema = <<>> THEN DOk(acc, b)
    ELSE LET r == DecField(Head(schema), b)
         IN IF ~r.ok THEN r
            ELSE DecFields(Tail(schema), r.rest, Append(acc, r.val))

RECURSIVE DecTag(_, _)
DecTag(prefix, b) ==
    IF VariantCount(prefix) = 0 THEN DOk(prefix, b)
    ELSE LET r == DecVariant(b, VariantCount(prefix))
         IN IF ~r.ok THEN r ELSE DecTag(Append(prefix, r.val), r.rest)

\* bincode::decode_from_slice(bytes, standard()): the command, or the error;
\* bytes after the command are left unread
decode_from_slice(b) ==
    LET t == DecTag(<<>>, b)
    IN IF ~t.ok THEN t
       ELSE LET r == DecFields(Schema(t.val), t.rest, <<>>)
            IN IF ~r.ok THEN r
               ELSE DOk([tag |-> t.val, f |-> r.val], r.rest)

----------------------------------------------------------------------------
(* SpecPlan: MountCommands::from(MountOptions) (config.rs)                  *)

\* "/a", "/b", ...: one path per directive
PlanPath(n) == <<47, 96 + n>>

PathPair(source, destination) == [source |-> source, destination |-> destination]
FdPathPair(fd, destination)   == [fd |-> fd, destination |-> destination]
ChmodPair(permissions, path)  == [permissions |-> permissions, path |-> path]

\* Option<T>: <<>> is None, <<x>> is Some(x)
OptionOf(x) == {<<>>, <<x>>}

\* --size in bytes, as Size::from_str gives it: 512, 2K, 1M
PlanSizes == {512, 2 * 1024, 1024 * 1024}
\* --perms 700
PlanPerms == {448}

PlanFiles  == <<FdPathPair(3, PlanPath(9)), FdPathPair(4, PlanPath(10))>>
PlanChmods == <<ChmodPair(493, PlanPath(13)), ChmodPair(420, PlanPath(14))>>

MountOptionSpace ==
    [bind       : OptionOf(PathPair(PlanPath(1), PlanPath(2))),
     dev_bind   : OptionOf(PathPair(PlanPath(1), PlanPath(3))),
     ro_bind    : OptionOf(PathPair(PlanPath(1), PlanPath(4))),
     proc       : OptionOf(PlanPath(5)),
     dev        : OptionOf(PlanPath(6)),
     tmpfs      : OptionOf(PlanPath(7)),
     mqueue     : OptionOf(PlanPath(8)),
     dir        : OptionOf(PlanPath(9)),
     file       : {<<>>, PlanFiles},
     symlink    : OptionOf(PathPair(PlanPath(11), PlanPath(12))),
     remount_ro : OptionOf(PlanPath(2)),
     chmod      : {<<>>, PlanChmods},
     perms      : {<<>>} \cup {<<p>> : p \in PlanPerms},
     size       : {<<>>} \cup {<<z>> : z \in PlanSizes}]

\* The commands each directive contributes, by directive
PlanParts(opts) ==
    [bind       |-> IF opts.bind # <<>>
                    THEN <<Bind(opts.bind[1].source, opts.bind[1].destination, FALSE, FALSE)>>
                    ELSE <<>>,
     dev_bind   |-> IF opts.dev_bind # <<>>
                    THEN <<Bind(opts.dev_bind[1].source, opts.dev_bind[1].destination,
                                FALSE, TRUE)>>
                    ELSE <<>>,
     ro_bind    |-> IF opts.ro_bind # <<>>
                    THEN <<Bind(opts.ro_bind[1].source, opts.ro_bind[1].destination,
                                TRUE, FALSE)>>
                    ELSE <<>>,
     proc       |-> IF opts.proc # <<>> THEN <<Proc(opts.proc[1])>> ELSE <<>>,
     dev        |-> IF opts.dev # <<>> THEN <<Dev(opts.dev[1])>> ELSE <<>>,
     tmpfs      |-> IF opts.tmpfs # <<>>
                    THEN <<Tmpfs(opts.tmpfs[1],
                                 IF opts.size # <<>> THEN <<opts.size[1] \div 1024>>
                                                     ELSE <<>>,
                                 opts.perms)>>
                    ELSE <<>>,
     mqueue     |-> IF opts.mqueue # <<>> THEN <<Mqueue(opts.mqueue[1])>> ELSE <<>>,
     dir        |-> IF opts.dir # <<>> THEN <<CreateDir(opts.dir[1])>> ELSE <<>>,
     file       |-> [i \in DOMAIN opts.file |->
                        CreateFile(opts.file[i].fd, opts.file[i].destination)],
     symlink    |-> IF opts.symlink # <<>>
                    THEN <<CreateSymlink(opts.symlink[1].destination,
                                         opts.symlink[1].source)>>
                    ELSE <<>>,
     remount_ro |-> IF opts.remount_ro # <<>>
                    THEN <<RemountReadOnly(opts.remount_ro[1])>>
                    ELSE <<>>,
     chmod      |-> [i \in DOMAIN opts.chmod |->
                        Chmod(opts.chmod[i].path, opts.chmod[i].permissions)]]

\* A variant that pushes the chmod commands before the file operations
MountCommands_from_chmod_early(opts) ==
    LET p == PlanParts(opts)
    IN p.bind \o p.dev_bind \o p.ro_bind \o p.proc \o p.dev \o p.tmpfs \o p.mqueue
       \o p.chmod \o p.dir \o p.file \o p.symlink \o p.remount_ro

\* impl From<MountOptions> for MountCommands
MountCommands_from(opts) ==
    LET p == PlanParts(opts)
    IN p.bind \o p.dev_bind \o p.ro_bind \o p.proc \o p.dev \o p.tmpfs \o p.mqueue
       \o p.dir \o p.file \o p.symlink \o p.remount_ro \o p.chmod

InitPlan ==
    /\ ruid = 1000 /\ euid = 1000 /\ hasCaps = FALSE
    /\ capCall = NoCapCall /\ flagsCall = NoFlagsCall /\ idm = NoIdMap /\ stk = NoStack
    /\ jh = NoJh
    /\ mnt \in [opts : MountOptionSpace, pc : {"from"}, wpc : {"none"}, plan : {<<>>},
                i : {0}, ops : {<<>>}, performed : {<<>>}, wcaps : {{}}, res : {"none"}]
    /\ args = NoArgs /\ cfg = NoArgs
    /\ level = "Rootless"
    /\ caps = EmptyCaps
    /\ nnp = TRUE
    /\ fsuid = 1000
    /\ drvPc = "wait" /\ drvExit = -1 /\ drvOps = <<>>
    /\ setup = "ok" /\ execRes = NoRes
    /\ handle = [exists |-> TRUE, waited |-> FALSE, dropped |-> FALSE]
    /\ waitCalls = 0 /\ log = {}
    /\ chPc = "prepare" /\ chStep = 9 /\ chOps = <<>> /\ chStatus = Alive
    /\ efd = 0 /\ pipe = <<>>
    /\ IdleReport /\ IdlePrivsep

MountUnchanged ==
    UNCHANGED <<ruid, euid, hasCaps, capCall, flagsCall, idm, stk, jh, args, cfg, level, caps,
                nnp, fsuid, drvPc, drvExit, drvOps, setup, execRes, handle, waitCalls, log,
                chVars, efd, pipe, repVars>>

\* let commands = MountCommands::from(mount_config)
BuildMountPlan ==
    /\ mnt.pc = "from"
    /\ mnt' = [mnt EXCEPT !.plan = MountCommands_from(mnt.opts), !.pc = "built"]
    /\ MountUnchanged
    /\ UNCHANGED privVars

NextPlan == BuildMountPlan

SpecPlan == InitPlan /\ [][NextPlan]_vars

----------------------------------------------------------------------------
(* SpecPrivsep: Worker::send and Supervisor::listen (privsep.rs)           *)

MaxSends == 2
LongPathLen == 120

ShortPath == <<47, 116, 109, 112>>
LongPath  == [i \in 1..LongPathLen |-> IF i = 1 THEN 47 ELSE 97]
Paths     == {ShortPath, LongPath}
OptPaths  == {<<>>} \cup {<<x>> : x \in Paths}

Commands ==
    {Bind(a, ShortPath, ro, ~ro) : a \in Paths, ro \in BOOLEAN}
    \cup {Overlay(ShortPath, u, u, ShortPath, m) : u \in {<<>>, <<ShortPath>>}, m \in {0, 1}}
    \cup {Proc(ShortPath), Dev(ShortPath), Mqueue(LongPath)}
    \cup {Tmpfs(ShortPath, <<>>, <<>>), Tmpfs(ShortPath, <<64>>, <<493>>),
          Tmpfs(ShortPath, <<1048576>>, <<>>)}
    \cup {OverlaySource(ShortPath, ShortPath, ShortPath)}
    \cup {CreateDir(a) : a \in Paths}
    \cup {CreateFile(fd, ShortPath) : fd \in {-1, 3, 200}}
    \cup {CreateBindFile(ShortPath, ShortPath, ro) : ro \in BOOLEAN}
    \cup {CreateSymlink(ShortPath, a) : a \in Paths}
    \cup {RemountReadOnly(ShortPath)}
    \cup {SetHostname(<<104, 111, 115, 116>>)}
    \cup {Chmod(ShortPath, md) : md \in {0, 493}}

\* std::mem::size_of::<MountCommand>() on a 64-bit target: the largest
\* variant, MountOp::Overlay, holds four 24-byte paths and a one-byte mode
SizeOfMountCommand == 104

\* read(2) of one SEQPACKET datagram into a buffer of `count` bytes: the
\* bytes beyond the buffer are discarded
SeqpacketRead(datagram, count) == SubSeq(datagram, 1, Min(count, Len(datagram)))

\* The exit code privsep's child branch gives std::process::exit
worker_exit_always_zero(res) == 0
worker_exit_code(res) == IF res = "ok" THEN 0 ELSE 1

\* Worker::send: encode and write one datagram; once the supervisor's endpoint
\* is dropped the write fails (EPIPE, SIGPIPE being ignored) and nothing is queued
WorkerSend ==
    /\ wopen /\ Len(sent) < MaxSends
    /\ IF ps.pc = "parent_fn"
       THEN \E v \in Commands :
               /\ sock' = Append(sock, encode_to_vec(v))
               /\ sent' = Append(sent, v)
       ELSE UNCHANGED <<sock, sent>>
    /\ UNCHANGED <<drvVars, chVars, efd, pipe, repVars, delivered, lsn, wopen, ps>>

\* The worker's function returns Ok or Err and the forked process exits with
\* the matching code; its endpoint of the socket closes
WorkerClose ==
    /\ wopen
    /\ wopen' = FALSE
    /\ \E res \in {"ok", "err"} :
          ps' = [ps EXCEPT !.wres = res, !.wstatus = Exited(worker_exit_code(res))]
    /\ UNCHANGED <<drvVars, chVars, efd, pipe, repVars, sock, sent, delivered, lsn>>

\* A variant of the loop that goes on after a handler error
listen_loops_after_handler_error(l) == l \in {"reading", "handler_error"}

\* The loop of Supervisor::listen runs another iteration only while no read,
\* decode or handler error has been returned with `?` and no read gave 0
listen_loops(l) == l = "reading"

\* One iteration of the loop of Supervisor::listen: read one datagram into a
\* buffer of size_of::<T>() bytes, stop on a read of 0, decode, call the
\* handler; a decode error or a handler error ends listen with that error
SupervisorListen ==
    /\ listen_loops(lsn)
    /\ IF sock # <<>>
       THEN LET buf == SeqpacketRead(Head(sock), SizeOfMountCommand)
                cmd == decode_from_slice(buf)
            IN /\ sock' = Tail(sock)
               /\ IF ~cmd.ok
                  THEN lsn' = "decode_error" /\ delivered' = delivered
                  ELSE /\ delivered' = Append(delivered, cmd.val)
                       /\ \E handlerOk \in BOOLEAN :
                             lsn' = IF handlerOk THEN "reading" ELSE "handler_error"
       ELSE /\ ~wopen
            /\ lsn' = "closed"
            /\ UNCHANGED <<sock, delivered>>
    /\ UNCHANGED <<drvVars, chVars, efd, pipe, repVars, sent, wopen, ps>>

\* The supervisor function returns with the result of listen; its endpoint of
\* the socket is dropped with it
SupervisorReturn ==
    /\ ps.pc = "parent_fn" /\ lsn # "reading"
    /\ ps' = [ps EXCEPT !.pc = "waitpid",
                        !.result = IF lsn = "closed" THEN "ok" ELSE lsn]
    /\ UNCHANGED <<drvVars, chVars, efd, pipe, repVars, sock, sent, delivered, lsn, wopen>>

\* The worker is killed by a signal; its endpoint of the socket closes
WorkerKilled ==
    /\ wopen
    /\ wopen' = FALSE
    /\ ps' = [ps EXCEPT !.wres = "killed", !.wstatus = Signaled(9)]
    /\ UNCHANGED <<drvVars, chVars, efd, pipe, repVars, sock, sent, delivered, lsn>>

\* A variant of privsep that reports a worker that did not exit with 0
privsep_result_worker_failure(result, wstatus) ==
    IF wstatus = Exited(0) THEN result ELSE "worker_failed"

\* What privsep returns in the parent: the result of parent_fn, whatever the
\* status waitpid gave for the worker
privsep_result(result, wstatus) == result

\* The line privsep prints for the status of the worker
privsep_log(wstatus) ==
    IF wstatus = Exited(0) THEN "none"
    ELSE IF wstatus.kind = "Exited" THEN "child_exited_with_status"
    ELSE "child_exit"

\* waitpid(child, None) returns once the worker has terminated; privsep then
\* returns the supervisor function's result
PrivsepWaitpid ==
    /\ ps.pc = "waitpid" /\ ps.wstatus # Alive
    /\ ps' = [ps EXCEPT !.reaped = TRUE, !.pc = "returned",
                        !.line = privsep_log(ps.wstatus),
                        !.result = privsep_result(ps.result, ps.wstatus)]
    /\ UNCHANGED <<drvVars, chVars, efd, pipe, repVars, sock, sent, delivered, lsn, wopen>>

\* The state after privsep's socketpair and fork, in the child of a setuid run
InitPrivsep ==
    /\ ruid = 1000 /\ euid = 0 /\ hasCaps = TRUE
    /\ args = NoArgs
    /\ cfg = NoArgs
    /\ level = "Setuid"
    /\ caps = configure_capabilities_by_privilege("Setuid", FullCaps).caps
    /\ nnp = TRUE
    /\ fsuid = 1000
    /\ drvPc = "wait" /\ drvExit = -1
    /\ drvOps = <<>>
    /\ setup = "ok" /\ execRes = NoRes
    /\ handle = [exists |-> TRUE, waited |-> FALSE, dropped |-> FALSE]
    /\ waitCalls = 0 /\ log = {}
    /\ chPc = "prepare" /\ chStep = 9 /\ chOps = <<>> /\ chStatus = Alive
    /\ efd = 0 /\ pipe = <<>>
    /\ capCall = NoCapCall /\ idm = NoIdMap /\ stk = NoStack /\ mnt = NoMount /\ jh = NoJh /\ flagsCall = NoFlagsCall
    /\ IdleReport
    /\ sock = <<>> /\ sent = <<>> /\ delivered = <<>>
    /\ lsn = "reading" /\ wopen = TRUE
    /\ ps = [wres |-> "none", wstatus |-> Alive, reaped |-> FALSE,
             pc |-> "parent_fn", result |-> "none", line |-> "none"]

NextPrivsep ==
    \/ WorkerSend
    \/ WorkerClose
    \/ WorkerKilled
    \/ SupervisorListen
    \/ SupervisorReturn
    \/ PrivsepWaitpid

SpecPrivsep == InitPrivsep /\ [][NextPrivsep]_vars

----------------------------------------------------------------------------
(* SpecMounts: Jail::handle_mounts (mount.rs) in the child                 *)

\* The mount directives of the runs checked
MountRuns ==
    LET o == NoMountOptions
        b == <<PathPair(PlanPath(1), PlanPath(2))>>
    IN {o,
        [o EXCEPT !.bind = b],
        [o EXCEPT !.bind = b, !.ro_bind = <<PathPair(PlanPath(1), PlanPath(4))>>],
        [o EXCEPT !.proc = <<PlanPath(5)>>],
        [o EXCEPT !.bind = b, !.tmpfs = <<PlanPath(7)>>, !.size = <<2048>>],
        [o EXCEPT !.bind = b, !.chmod = PlanChmods]}

\* The child at the handle_mounts step of Jail::prepare, at each privilege level
InitMounts ==
    /\ level \in {"Setuid", "Rootless", "Root"}
    /\ ruid = (IF level = "Root" THEN 0 ELSE 1000)
    /\ euid = (IF level = "Rootless" THEN 1000 ELSE 0)
    /\ hasCaps = (level # "Rootless")
    /\ capCall = NoCapCall /\ flagsCall = NoFlagsCall /\ idm = NoIdMap /\ stk = NoStack
    /\ jh = NoJh
    /\ mnt \in [opts : MountRuns, pc : {"handle_mounts"}, wpc : {"none"}, plan : {<<>>},
                i : {0}, ops : {<<>>}, performed : {<<>>}, wcaps : {{}}, res : {"none"}]
    /\ args = NoArgs /\ cfg = NoArgs
    /\ caps = (IF level = "Rootless" THEN EmptyCaps
               ELSE configure_capabilities_by_privilege(level, FullCaps).caps)
    /\ nnp = TRUE
    /\ fsuid = ruid
    /\ drvPc = "wait" /\ drvExit = -1 /\ drvOps = <<>>
    /\ setup = "ok" /\ execRes = NoRes
    /\ handle = [exists |-> TRUE, waited |-> FALSE, dropped |-> FALSE]
    /\ waitCalls = 0 /\ log = {}
    /\ chPc = "prepare" /\ chStep = 9 /\ chOps = <<>> /\ chStatus = Alive
    /\ efd = 0 /\ pipe = <<>>
    /\ IdleReport /\ IdlePrivsep

\* handle_mounts: at level Setuid privsep makes the socket pair and forks the
\* worker, which keeps the capabilities of the child; at every other level
\* handle_mounts returns Ok at once
HandleMounts ==
    /\ mnt.pc = "handle_mounts"
    /\ IF level = "Setuid"
       THEN \E forked \in BOOLEAN :
               IF forked
               THEN /\ mnt' = [mnt EXCEPT !.pc = "privsep", !.wpc = "from",
                                          !.wcaps = caps.eff]
                    /\ lsn' = "reading" /\ wopen' = TRUE
                    /\ ps' = [wres |-> "none", wstatus |-> Alive, reaped |-> FALSE,
                              pc |-> "parent_fn", result |-> "none", line |-> "none"]
                    /\ UNCHANGED <<sock, sent, delivered>>
               ELSE /\ mnt' = [mnt EXCEPT !.pc = "returned", !.res = "err"]
                    /\ UNCHANGED privVars
       ELSE /\ mnt' = [mnt EXCEPT !.pc = "returned", !.res = "ok"]
            /\ UNCHANGED privVars
    /\ MountUnchanged

\* mount_worker: the plan is built from the mount directives
MountWorkerPlan ==
    /\ mnt.pc = "privsep" /\ mnt.wpc = "from"
    /\ mnt' = [mnt EXCEPT !.plan = MountCommands_from(mnt.opts), !.i = 1, !.wpc = "loop"]
    /\ MountUnchanged
    /\ UNCHANGED privVars

\* One iteration of the loop of mount_worker, or its return after the last
\* command.  Nothing is sent to the supervisor.  For a Bind the worker makes
\* sure an existing target directory or file is there; for every other
\* command it panics (todo!).  The forked worker ends with exit code 0 on Ok,
\* 1 on Err, and 101 or SIGABRT on a panic.
MountWorkerStep ==
    /\ mnt.pc = "privsep" /\ mnt.wpc = "loop"
    /\ LET ends(res, status) ==
               /\ mnt' = [mnt EXCEPT !.wpc = "done"]
               /\ wopen' = FALSE
               /\ ps' = [ps EXCEPT !.wres = res, !.wstatus = status]
           goes(op) ==
               /\ mnt' = [mnt EXCEPT !.i = mnt.i + 1,
                                     !.ops = IF op = <<>> THEN mnt.ops
                                             ELSE Append(mnt.ops, op)]
               /\ UNCHANGED <<wopen, ps>>
       IN IF mnt.i > Len(mnt.plan)
          THEN ends("ok", Exited(worker_exit_code("ok")))
          ELSE LET cmd == mnt.plan[mnt.i]
               IN IF cmd.tag = <<0, 0>>
                  THEN \/ goes(<<>>)
                       \/ \E kind \in {"ensure_directory", "ensure_file"} :
                              \/ goes(<<kind, cmd.f[2]>>)
                              \/ ends("err", Exited(worker_exit_code("err")))
                  ELSE \E status \in {Exited(101), Signaled(6)} : ends("panic", status)
    /\ MountUnchanged
    /\ UNCHANGED <<sock, sent, delivered, lsn>>

\* privsep returns the supervisor's result to handle_mounts
HandleMountsReturn ==
    /\ mnt.pc = "privsep" /\ ps.pc = "returned"
    /\ mnt' = [mnt EXCEPT !.pc = "returned", !.res = ps.result]
    /\ MountUnchanged
    /\ UNCHANGED privVars

NextMounts ==
    \/ HandleMounts
    \/ MountWorkerPlan
    \/ MountWorkerStep
    \/ SupervisorListen
    \/ SupervisorReturn
    \/ PrivsepWaitpid
    \/ HandleMountsReturn

SpecMounts == InitMounts /\ [][NextMounts]_vars

----------------------------------------------------------------------------
(* SpecHandle: the operations of a JailHandle (jailer.rs) in any order     *)

MaxHandleOps == 3

\* The child right after clone, blocked on the notifier; the handle just built
InitHandle ==
    /\ ruid = 1000 /\ euid = 1000 /\ hasCaps = FALSE
    /\ capCall = NoCapCall /\ flagsCall = NoFlagsCall /\ idm = NoIdMap /\ stk = NoStack
    /\ mnt = NoMount /\ jh = NoJh
    /\ args = NoArgs /\ cfg = NoArgs
    /\ level = "Rootless"
    /\ caps = EmptyCaps
    /\ nnp = TRUE
    /\ fsuid = 1000
    /\ drvPc = "parent_setup" /\ drvExit = -1 /\ drvOps = <<>>
    /\ setup = "none" /\ execRes = NoRes
    /\ handle = [exists |-> TRUE, waited |-> FALSE, dropped |-> FALSE]
    /\ waitCalls = 0 /\ log = {}
    /\ chPc = "wait" /\ chStep = 0 /\ chOps = <<>> /\ chStatus = Alive
    /\ efd = 0 /\ pipe = <<>>
    /\ IdleReport /\ IdlePrivsep

HandleUnchanged ==
    UNCHANGED <<ruid, euid, hasCaps, capCall, flagsCall, idm, stk, mnt, args, cfg, level,
                caps, nnp, fsuid, drvPc, drvExit, drvOps, setup, waitCalls, chPc, chStep,
                chOps, pipe, repVars, privVars>>

\* waitpid(pid, None) has returned: with the status of the terminated child,
\* which it reaps, or with ECHILD when the child was reaped before
WaitpidReturns ==
    IF jh.reaped
    THEN /\ execRes' = Err("Failed to wait for process")
         /\ jh' = [jh EXCEPT !.n = jh.n + 1, !.calls = Append(jh.calls, "waitpid")]
         /\ UNCHANGED handle
    ELSE /\ execRes' = JailHandle_wait(chStatus)
         /\ jh' = [jh EXCEPT !.n = jh.n + 1, !.calls = Append(jh.calls, "waitpid"),
                            !.reaped = TRUE]
         /\ handle' = [handle EXCEPT !.waited = TRUE]

\* JailHandle::wait; the call returns once the child has terminated
JailHandleWait ==
    /\ ~handle.dropped /\ jh.n < MaxHandleOps
    /\ jh.reaped \/ chStatus # Alive
    /\ WaitpidReturns
    /\ UNCHANGED <<log, chStatus, efd>>
    /\ HandleUnchanged

\* JailHandle::execute: the parent closure, notifier.signal(), then wait
JailHandleExecute ==
    /\ ~handle.dropped /\ jh.n < MaxHandleOps
    /\ \E setupOk \in BOOLEAN :
          IF execute_next(setupOk) = "signal"
          THEN /\ jh.reaped \/ chStatus # Alive
               /\ efd' = eventfd_write(efd)
               /\ WaitpidReturns
          ELSE /\ execRes' = Err("Parent setup failed")
               /\ jh' = [jh EXCEPT !.n = jh.n + 1]
               /\ UNCHANGED <<handle, efd>>
    /\ UNCHANGED <<log, chStatus>>
    /\ HandleUnchanged

\* JailHandle::terminate: nothing when waited; else try_wait, and SIGKILL when
\* the child is still alive
JailHandleTerminate ==
    /\ ~handle.dropped /\ jh.n < MaxHandleOps
    /\ IF handle.waited
       THEN /\ execRes' = Ok(0)
            /\ jh' = [jh EXCEPT !.n = jh.n + 1]
            /\ UNCHANGED <<handle, chStatus>>
       ELSE IF jh.reaped
       THEN /\ execRes' = Err("Failed to check status of process")
            /\ jh' = [jh EXCEPT !.n = jh.n + 1,
                                !.calls = Append(jh.calls, "waitpid_nohang")]
            /\ UNCHANGED <<handle, chStatus>>
       ELSE IF chStatus.kind \in {"Exited", "Signaled"}
       THEN /\ execRes' = IF chStatus.kind = "Exited" THEN Ok(0)
                          ELSE ErrSig("Child process killed by signal", chStatus.val)
            /\ jh' = [jh EXCEPT !.n = jh.n + 1, !.reaped = TRUE,
                                !.calls = Append(jh.calls, "waitpid_nohang")]
            /\ handle' = [handle EXCEPT !.waited = TRUE]
            /\ UNCHANGED chStatus
       ELSE /\ execRes' = Ok(0)
            /\ jh' = [jh EXCEPT !.n = jh.n + 1,
                                !.calls = jh.calls \o <<"waitpid_nohang", "kill">>]
            /\ chStatus' = Signaled(9)
            /\ UNCHANGED handle
    /\ UNCHANGED <<log, efd>>
    /\ HandleUnchanged

\* Drop for JailHandle: nothing when waited; else one try_wait and a line
JailHandleDrop ==
    /\ ~handle.dropped
    /\ log' = log \cup drop_log(handle, chStatus)
    /\ handle' = [handle EXCEPT !.waited = drop_waited(handle, chStatus),
                                !.dropped = TRUE]
    /\ jh' = IF handle.waited THEN jh
             ELSE [jh EXCEPT !.calls = Append(jh.calls, "waitpid_nohang"),
                             !.reaped = chStatus.kind \in {"Exited", "Signaled"}]
    /\ UNCHANGED <<execRes, chStatus, efd>>
    /\ HandleUnchanged

\* The child terminates: it exits, or a signal kills it
HandleChildEnds ==
    /\ chStatus = Alive
    /\ chStatus' \in {Exited(0), Exited(1), Signaled(9), Signaled(15)}
    /\ UNCHANGED <<jh, handle, execRes, log, efd>>
    /\ HandleUnchanged

NextHandle ==
    \/ JailHandleWait
    \/ JailHandleExecute
    \/ JailHandleTerminate
    \/ JailHandleDrop
    \/ HandleChildEnds

SpecHandle == InitHandle /\ [][NextHandle]_vars

----------------------------------------------------------------------------
(* SpecNotifier: the Notifier (notifier.rs) between a parent that signals  *)
(* any number of times and the child of child_main                         *)

MaxSignals == 3

\* Right after clone: the counter is 0 and the child has not yet called
\* wait_for_signal
InitNotifier ==
    /\ ruid = 1000 /\ euid = 1000 /\ hasCaps = FALSE
    /\ capCall = NoCapCall /\ flagsCall = NoFlagsCall /\ idm = NoIdMap /\ stk = NoStack
    /\ mnt = NoMount /\ jh = NoJh
    /\ args = NoArgs
    /\ cfg = MainConfig(NoArgs, "Rootless", 1000)
    /\ level = "Rootless"
    /\ caps = EmptyCaps
    /\ nnp = TRUE
    /\ fsuid = 1000
    /\ drvPc = "signal" /\ drvExit = -1 /\ drvOps = <<>>
    /\ setup = "ok" /\ execRes = NoRes
    /\ handle = [exists |-> TRUE, waited |-> FALSE, dropped |-> FALSE]
    /\ waitCalls = 0 /\ log = {}
    /\ chPc = "cloned" /\ chStep = 0 /\ chOps = <<>> /\ chStatus = Alive
    /\ efd = 0 /\ pipe = <<>>
    /\ IdleReport /\ IdlePrivsep

\* The child reaches notifier.wait_for_signal() and calls read
ChildEnterWait ==
    /\ chPc = "cloned"
    /\ chPc' = "wait"
    /\ UNCHANGED <<drvVars, chStep, chOps, chStatus, efd, pipe, repVars, privVars>>

\* Notifier::signal, called once more by the holder of the notifier
NotifierSignal ==
    /\ Len(drvOps) < MaxSignals
    /\ efd' = eventfd_write(efd)
    /\ drvOps' = Append(drvOps, "signal")
    /\ UNCHANGED <<inVars, cfg, level, caps, nnp, fsuid, drvPc, drvExit, setup, execRes,
                   handle, waitCalls, log, chVars, pipe, repVars, privVars>>

NextNotifier ==
    \/ NotifierSignal
    \/ ChildEnterWait
    \/ ChildWait
    \/ ChildContextInit
    \/ ChildPrepareStep
    \/ ChildExec
    \/ TargetExit
    \/ TargetKilled

\* The child is a process of its own: the kernel schedules it whenever it can run
SpecNotifier ==
    /\ InitNotifier /\ [][NextNotifier]_vars
    /\ WF_vars(ChildEnterWait) /\ WF_vars(ChildWait)

----------------------------------------------------------------------------
(* Claims                                                                  *)

Range(q) == {q[i] : i \in DOMAIN q}

\* a occurs in q at an earlier position than b
Before(q, a, b) == \E i, j \in DOMAIN q : i < j /\ q[i] = a /\ q[j] = b

\* C1: in every interleaving the child does nothing past its notifier wait
\* (context re-init, preparation step, exec) until the parent-setup closure has
\* returned Ok and notifier.signal() has been called.
C1_ChildHeldUntilSignal ==
    (chPc \notin {"none", "wait"} \/ chOps # <<>>)
        => (setup = "ok" /\ "signal" \in Range(drvOps))

\* The child has been released and has run preparation steps after a signal
C1_Witness ==
    /\ chPc = "prepare" /\ Len(chOps) >= 2
    /\ setup = "ok" /\ "signal" \in Range(drvOps)

\* C2: whenever the child was cloned into a new user namespace, the parent has
\* written the child's uid_map and gid_map before the child runs its first
\* Jail preparation step.
C2_ParentWroteIdMapsFirst ==
    (cfg.unshare_user /\ chPc \notin {"none", "wait", "ctx_init"})
        => ("write_uid_map" \in Range(drvOps) /\ "write_gid_map" \in Range(drvOps))

\* C3: on every path of the child that reaches exec, oldroot and then the
\* saved original root have been unmounted with MNT_DETACH before the exec.
C3_OldRootDetachedBeforeExec ==
    ExecStep \in Range(chOps) =>
        /\ Before(chOps, <<"umount2", "oldroot", "MNT_DETACH">>, ExecStep)
        /\ Before(chOps, <<"fchdir", "saved_root_fd", "">>, <<"umount2", ".", "MNT_DETACH">>)
        /\ Before(chOps, <<"umount2", ".", "MNT_DETACH">>, ExecStep)

\* The child has exec'd the target
C3_Witness == chPc = "target" /\ ExecStep \in Range(chOps)

UserDrivenOps == {"setns_userns", "setns_switch_userns", "clone",
                  "write_uid_map", "write_gid_map"}

\* C4: at privilege level Setuid the bounding drop of the setuid capability
\* program is complete before the driver makes any call driven by user
\* directives (setns on a supplied fd, clone, id-map write) and before the
\* child makes any call at all (id-map writes, mounts).
C4_SetuidDropsBoundingFirst ==
    level = "Setuid" =>
        /\ \A i \in DOMAIN drvOps :
              drvOps[i] \in UserDrivenOps =>
                 \E j, k \in 1..(i - 1) :
                    j < k /\ drvOps[j] = "capbset_drop_all" /\ drvOps[k] = "capbset_retain"
        /\ (chPc # "none" => Before(drvOps, "capbset_retain", "clone"))
        /\ (drvPc \in {"nnp", "parse_flags", "open_proc", "setns"}
               => caps.bnd \subseteq SETUID_CAPABILITIES)

\* A setuid run that has cloned its child
C4_Witness == level = "Setuid" /\ "clone" \in Range(drvOps) /\ chPc = "wait"

\* C5: if the parent-setup closure fails, signal() is never called and execute
\* calls no waitpid; the child stays blocked at its wait point, runs nothing,
\* and the drop of the JailHandle finds it alive and logs the warning.
C5_FailedSetupLeavesChildBlocked ==
    setup = "err" =>
        /\ "signal" \notin Range(drvOps) /\ efd = 0
        /\ waitCalls = 0
        /\ chPc = "wait" /\ chOps = <<>> /\ chStatus = Alive
        /\ (handle.dropped =>
               /\ ~handle.waited
               /\ log = {"warn_dropped_still_running"})

\* Parent setup failed and the handle has been dropped
C5_Witness == setup = "err" /\ handle.dropped /\ drvPc = "exited"

\* C6: for every exit code c with which the sandboxed program exits normally,
\* the driver finishes with exit code c.
C6_ExitCodePassThrough ==
    (drvPc = "exited" /\ chPc = "target_done" /\ chStatus.kind = "Exited")
        => drvExit = chStatus.val

\* C7: JailHandle::wait returns Ok(code) exactly when the child exited with
\* that code, an error naming the signal when it was killed by a signal, and
\* an error for every other status; a signal death makes the driver end with a
\* non-zero exit code.
C7_WaitSemantics ==
    /\ (drvPc = "return" /\ handle.waited) =>
          /\ execRes.ok <=> chStatus.kind = "Exited"
          /\ execRes.ok => execRes.val = chStatus.val
          /\ chStatus.kind = "Signaled" => (~execRes.ok /\ execRes.sig = chStatus.val)
          /\ chStatus.kind \notin {"Exited", "Signaled"} => (~execRes.ok /\ execRes.sig = 0)
    /\ (drvPc \in {"main_ret", "exited"} /\ handle.waited /\ chStatus.kind = "Signaled")
          => ~execRes.ok
    /\ (drvPc = "exited" /\ handle.waited /\ chStatus.kind = "Signaled")
          => drvExit # 0

\* The driver has ended after its child was killed by a signal
C7_Witness ==
    drvPc = "exited" /\ handle.waited /\ chStatus.kind = "Signaled" /\ drvExit = 1

\* C9: whenever a Jail preparation step fails in the child, the stringified
\* error has been written to the ErrorReporter pipe by the time the child has
\* exited with status 1.
C9_PrepErrorReported ==
    chPc = "prep_failed" => (chStatus = Exited(1) /\ pipe # <<>>)

\* C8: check_for_reported_errors returns Ok when nothing has been written,
\* and after a non-empty UTF-8 message m has been written it fails with an
\* error carrying exactly m.
C8_CheckSurfacesMessage ==
    checked.done =>
        /\ checked.after = 0 => checked.ok
        /\ checked.after = 1 => (~checked.ok /\ checked.msg = written[1])

\* A check made while nothing had been written returned Ok
C8_WitnessEmpty == checked.done /\ checked.after = 0 /\ checked.ok /\ written = <<>>

\* C10: for every MountCommand v, Worker::send(v) followed by one iteration of
\* Supervisor::listen hands the handler a command equal to v.
C10_RoundTrip ==
    (sent # <<>> /\ Len(sock) < Len(sent))
        => (delivered # <<>> /\ delivered[1] = sent[1])

\* A command whose encoding fits the read buffer went through unchanged
C10_WitnessShort ==
    /\ sent # <<>> /\ sock = <<>>
    /\ Len(encode_to_vec(sent[1])) <= SizeOfMountCommand
    /\ delivered = sent

\* C11: after n back-to-back Worker::send calls and the close of the worker's
\* endpoint, Supervisor::listen has called the handler exactly n times, once per
\* sent command in send order, and returns Ok on the zero-byte read (the
\* handler itself never failing).
C11_BoundariesPreserved ==
    /\ (lsn = "closed") => (delivered = sent)
    /\ (~wopen /\ sock = <<>> /\ lsn # "reading" /\ lsn # "handler_error")
          => (lsn = "closed" /\ delivered = sent)

\* Two commands that fit the read buffer arrived one by one, in order
C11_WitnessTwo ==
    /\ lsn = "closed" /\ Len(sent) = 2 /\ sent[1] # sent[2]
    /\ delivered = sent

\* C12: the forked worker exits with code 0 exactly when its function returned
\* Ok and with code 1 when it returned an error; waitpid on the worker happens
\* only after the supervisor function has returned, and privsep returns only
\* after the worker was reaped.
C12_WorkerExitAndReap ==
    /\ (ps.wstatus = Exited(0)) <=> (ps.wres = "ok")
    /\ (ps.wstatus = Exited(1)) <=> (ps.wres = "err")
    /\ ps.reaped => (lsn # "reading" /\ ps.result # "none" /\ ps.wstatus # Alive)
    /\ (ps.pc = "returned") => ps.reaped

\* privsep returned the supervisor's error after reaping a worker that failed
C12_Witness ==
    /\ ps.pc = "returned" /\ ps.reaped
    /\ ps.wres = "err" /\ ps.wstatus = Exited(1)
    /\ ps.result = "decode_error"

----------------------------------------------------------------------------
(* File descriptors the driver opens before clone, with their open flags   *)

\* The descriptors an entry of the driver's log opens and the flags it passes
OpenedBy(op) ==
    CASE op = "open_proc" -> [fds |-> {"proc"}, flags |-> {"O_PATH"}]
      [] op = "eventfd"   -> [fds |-> {"notifier"}, flags |-> {"EFD_CLOEXEC"}]
      [] op = "pipe2"     -> [fds |-> {"reporter_reader", "reporter_writer"},
                              flags |-> {"O_CLOEXEC", "O_NONBLOCK"}]
      [] OTHER            -> [fds |-> {}, flags |-> {}]

CloexecFlags == {"O_CLOEXEC", "EFD_CLOEXEC", "SOCK_CLOEXEC"}

\* The driver's descriptors, each with whether close-on-exec is set on it
DriverFds ==
    UNION {{[fd |-> f, cloexec |-> OpenedBy(drvOps[i]).flags \cap CloexecFlags # {}]
               : f \in OpenedBy(drvOps[i]).fds} : i \in 1..Len(drvOps)}

\* execvp keeps the descriptors of the cloned child (a copy of the driver's
\* table, none of them closed by the child) that lack close-on-exec
TargetInheritedFds ==
    IF chPc \in {"target", "target_done"}
    THEN {d.fd : d \in {x \in DriverFds : ~x.cloexec}}
    ELSE {}

\* C13: every descriptor the driver holds across clone has close-on-exec set
\* from the moment it is opened, so none of them is open in the exec'd target.
C13_NoFdLeakIntoTarget ==
    /\ \A d \in DriverFds : d.cloexec
    /\ TargetInheritedFds = {}

\* The target runs and the notifier and reporter descriptors were closed by exec
C13_WitnessCloexec ==
    /\ chPc = "target"
    /\ {"notifier", "reporter_reader", "reporter_writer"} \cap TargetInheritedFds = {}
    /\ \E d \in DriverFds : d.fd = "notifier" /\ d.cloexec

\* The driver's calls that change a capability set, join a namespace or clone
SideEffectOps ==
    {"clone", "setns_userns", "setns_switch_userns", "capset_clear",
     "capbset_drop_all", "capbset_retain", "capset_effective", "capset_permitted",
     "capset_inheritable"}

\* C14: a run given an invalid file descriptor in an FD-valued directive is
\* rejected before any side effect: no capability change, no setns and no clone.
C14_InvalidFdRejectedFirst ==
    (args.userns = "invalid" \/ args.switch_userns = "invalid") =>
        /\ \A i \in DOMAIN drvOps : drvOps[i] \notin SideEffectOps
        /\ chPc = "none"

\* --userns with a closed descriptor was refused by the argument parser
C14_WitnessUserns ==
    /\ args.userns = "invalid" /\ args.switch_userns = "none"
    /\ drvPc = "exited" /\ drvExit = 2 /\ drvOps = <<>> /\ chPc = "none"

\* The context was constructed (GlobalContext::init stored it)
ContextStored == level # "unset"
FatalLogged == "FATAL: setuid binary must elevate to root" \in log

C16_RootlessWithCapsRefused ==
    level = "RootlessWithCapabilities" =>
        /\ drvPc \in {"parse", "caps", "exited"}
        /\ drvPc = "exited" =>
              \/ drvExit = 2
              \/ drvExit = 1 /\ "ROOTLESS_WITH_CAPABILITY_ERROR_MESSAGE" \in log
        /\ nnp = FALSE /\ caps = FullCaps
        /\ drvOps = <<>> /\ chPc = "none" /\ ~handle.exists

\* Enclosure::new has refused a rootless caller that holds capabilities
C16_Witness ==
    /\ level = "RootlessWithCapabilities"
    /\ drvPc = "exited" /\ drvExit = 1
    /\ "ROOTLESS_WITH_CAPABILITY_ERROR_MESSAGE" \in log
    /\ nnp = FALSE /\ caps = FullCaps /\ chPc = "none"

\* C17: after the setuid capability program succeeds, Effective and Permitted
\* both equal exactly the six SETUID_CAPABILITIES, Inheritable is empty, Ambient
\* is unchanged (it starts empty), and Bounding holds nothing outside the six.
C17_SetuidProgramResult ==
    (level = "Setuid" /\ drvPc \in {"nnp", "parse_flags"}) =>
        /\ caps.eff = SETUID_CAPABILITIES
        /\ caps.perm = SETUID_CAPABILITIES
        /\ caps.inh = {}
        /\ caps.amb = {}
        /\ caps.bnd \subseteq SETUID_CAPABILITIES

\* The program succeeded from a start that had an inheritable capability
C17_Witness ==
    /\ level = "Setuid" /\ drvPc = "nnp"
    /\ "capset_inheritable" \in Range(drvOps)
    /\ caps.perm = SETUID_CAPABILITIES /\ caps.bnd = {}

EnclosureExists ==
    drvPc \in {"parse_flags", "open_proc", "setns", "builder", "clone",
               "parent_setup", "signal", "wait", "return", "main_ret"}

\* C18: an Enclosure value exists only if apply_no_new_privs succeeded after
\* the level's capability program, so every child is cloned from a task that
\* has NO_NEW_PRIVS set; a failure to set it aborts construction.
C18_NoNewPrivsBeforeClone ==
    /\ EnclosureExists => nnp
    /\ (chPc # "none" \/ handle.exists) => nnp
    /\ \A i \in DOMAIN drvOps :
          drvOps[i] = "clone" =>
             \E j \in 1..(i - 1) :
                /\ drvOps[j] = "prctl_no_new_privs"
                /\ \A k \in DOMAIN drvOps :
                      drvOps[k] \in Range(SetuidProgramOps) => k < j
    /\ (~nnp /\ drvPc = "exited") => (chPc = "none" /\ "clone" \notin Range(drvOps))

\* A child was cloned by a setuid driver after the capability program and the prctl
C18_Witness ==
    /\ chPc # "none" /\ nnp
    /\ level = "Setuid" /\ "capset_inheritable" \in Range(drvOps)

\* C20: with --unshare-all the result is all flags; otherwise it is CLONE_NEWNS
\* together with exactly the requested flags the kernel supports, a requested
\* but unsupported flag being left out of the result.
C20_CloneFlagResolution ==
    drvPc = "flags_parsed" =>
        /\ flagsCall.res.ok
        /\ flagsCall.res.val =
              IF flagsCall.unshare_all THEN CloneFlagsAll
              ELSE {"CLONE_NEWNS"} \cup (flagsCall.requested \cap flagsCall.supported)

\* Every requested flag was supported: CLONE_NEWNS and the requested flags
C20_WitnessSupported ==
    /\ drvPc = "flags_parsed" /\ ~flagsCall.unshare_all
    /\ flagsCall.requested = {"CLONE_NEWUSER", "CLONE_NEWPID"}
    /\ flagsCall.res.ok
    /\ flagsCall.res.val = {"CLONE_NEWNS", "CLONE_NEWUSER", "CLONE_NEWPID"}

\* C21: when --unshare-all is not given and no namespace switch is requested,
\* clone-flag resolution returns the set of all clone flags.
C21_EmptySelectionIsAll ==
    (drvPc = "flags_parsed" /\ ~flagsCall.unshare_all /\ flagsCall.requested = {}) =>
        (flagsCall.res.ok /\ flagsCall.res.val = CloneFlagsAll)

\* --unshare-all resolved to every clone flag
C21_WitnessUnshareAll ==
    /\ drvPc = "flags_parsed" /\ flagsCall.unshare_all /\ flagsCall.requested = {}
    /\ flagsCall.res.ok /\ flagsCall.res.val = CloneFlagsAll

\* C22: IdMapWriter writes uid_map = "<sandbox_uid> <ruid> 1\n" unless map_root
\* holds with ruid # 0 and sandbox_uid # 0, in which case it writes
\* "0 <overflow_uid> 1\n<sandbox_uid> <ruid> 1\n"; gid_map follows the same rule
\* with the sandbox gid, the real gid and the overflow gid.
C22_IdMapTexts ==
    \A i \in DOMAIN idm.writes :
        LET w == idm.writes[i]
            in == idm.in
        IN /\ w[1] = "uid_map" =>
                 w[2] = IF in.map_root /\ in.ruid # 0 /\ in.uid # 0
                        THEN << <<0, in.overflow.uid, 1>>, <<in.uid, in.ruid, 1>> >>
                        ELSE << <<in.uid, in.ruid, 1>> >>
           /\ w[1] = "gid_map" =>
                 w[2] = IF in.map_root /\ in.guid # 0 /\ in.gid # 0
                        THEN << <<0, in.overflow.gid, 1>>, <<in.gid, in.guid, 1>> >>
                        ELSE << <<in.gid, in.guid, 1>> >>

\* A write with map_root that gave a two-line uid_map and a one-line gid_map
C22_Witness ==
    /\ idm.res = "ok" /\ idm.in.map_root
    /\ idm.in.uid = 2000 /\ idm.in.ruid = 1000 /\ idm.in.gid = 0
    /\ \E i \in DOMAIN idm.writes :
          idm.writes[i] = <<"uid_map", << <<0, OverflowId, 1>>, <<2000, 1000, 1>> >> >>
    /\ \E i \in DOMAIN idm.writes :
          idm.writes[i][1] = "gid_map" /\ Len(idm.writes[i][2]) = 1


\* C23: in the id-map write of the child, "deny" is written to setgroups before
\* gid_map is written, and no map is written unless that write succeeded: every
\* uid_map or gid_map write follows a completed setgroups write.
C23_SetgroupsDeniedFirst ==
    \A i \in DOMAIN chOps :
        (chOps[i][1] = "write" /\ chOps[i][2] \in {"uid_map", "gid_map"}) =>
            \E j \in 1..(i - 1) : chOps[j] = <<"write", "setgroups", "deny">>

\* The child wrote gid_map for its new user namespace
C23_Witness ==
    /\ level # "Setuid" /\ cfg.unshare_user
    /\ \E i \in DOMAIN chOps : chOps[i] = <<"write", "gid_map", "">>
    /\ \E j \in DOMAIN chOps : chOps[j] = <<"write", "setgroups", "deny">>


\* The sizes GuardedStack::new is specified to accept
StackSizeAccepted(s) ==
    s > 0 /\ s % PageSize = 0 /\ s + PageSize <= UsizeMax

\* C24 as stated: GuardedStack::new(s) fails without leaving a mapping when
\* s = 0, s is not a multiple of the page size or s + page_size overflows the
\* word, and succeeds for every other s.
C24_NewSucceedsIffSizeAccepted ==
    /\ (stk.pc = "mapped") => StackSizeAccepted(stk.s)
    /\ (stk.pc = "returned") =>
          /\ (stk.res = "err") => (stk.mapping = NoMapping)
          /\ (stk.res = "ok") <=> StackSizeAccepted(stk.s)

\* C24, amended: GuardedStack::new(s) fails without leaving a mapping when
\* s = 0, s is not a multiple of the page size or s + page_size overflows the
\* word; for every other s it succeeds unless the page-size query, the mmap or
\* the mprotect fails, and then too it leaves no mapping.
C24_NewFailsOnBadSize ==
    /\ (stk.pc = "mapped") => StackSizeAccepted(stk.s)
    /\ (stk.pc = "returned") =>
          /\ (stk.res = "err") => (stk.mapping = NoMapping)
          /\ (~StackSizeAccepted(stk.s)) => (stk.res = "err")
          /\ StackSizeAccepted(stk.s) =>
                (stk.res = "ok" \/ stk.err \in {"page_size", "mmap", "mprotect"})

\* new returned the overflow error for the largest page multiple of the word
C24_WitnessOverflow ==
    /\ stk.pc = "returned" /\ stk.res = "err" /\ stk.err = "overflow"
    /\ stk.s > 0 /\ stk.s % PageSize = 0 /\ stk.s + PageSize > UsizeMax

DirectiveRank(cmd) ==
    CASE cmd.tag = <<0, 0>> /\ ~cmd.f[3] /\ ~cmd.f[4] -> 1
      [] cmd.tag = <<0, 0>> /\ ~cmd.f[3] /\ cmd.f[4]  -> 2
      [] cmd.tag = <<0, 0>> /\ cmd.f[3] /\ ~cmd.f[4]  -> 3
      [] cmd.tag = <<0, 2, 0>> -> 4
      [] cmd.tag = <<0, 2, 1>> -> 5
      [] cmd.tag = <<0, 2, 2>> -> 6
      [] cmd.tag = <<0, 2, 3>> -> 7
      [] cmd.tag = <<1, 0>>    -> 8
      [] cmd.tag = <<1, 1>>    -> 9
      [] cmd.tag = <<1, 3>>    -> 10
      [] cmd.tag = <<1, 4>>    -> 11
      [] cmd.tag = <<2, 1>>    -> 12
      [] OTHER                 -> 0

\* The commands of a plan that come from the directive of rank r, in plan order
OfRank(plan, r) == SelectSeq(plan, LAMBDA c : DirectiveRank(c) = r)

\* C26: the plan built from the mount directives has its commands in the order
\* bind, dev-bind, ro-bind, proc, dev, tmpfs, mqueue, dir, file(s), symlink,
\* remount-ro, chmod(s); each command is present exactly when its directive is
\* given and carries the directive's values, and the tmpfs command carries the
\* --size value (in KiB) and the --perms value.
C26_PlanOrder ==
    (mnt.pc = "built") =>
        LET plan == mnt.plan
            o    == mnt.opts
            One(r, given, cmd) ==
                OfRank(plan, r) = IF given THEN <<cmd>> ELSE <<>>
        IN /\ \A i \in DOMAIN plan : DirectiveRank(plan[i]) \in 1..12
           /\ \A i, j \in DOMAIN plan :
                 i < j => DirectiveRank(plan[i]) <= DirectiveRank(plan[j])
           /\ One(1, o.bind # <<>>,
                  [tag |-> <<0, 0>>,
                   f |-> <<Head(o.bind).source, Head(o.bind).destination, FALSE, FALSE>>])
           /\ One(2, o.dev_bind # <<>>,
                  [tag |-> <<0, 0>>,
                   f |-> <<Head(o.dev_bind).source, Head(o.dev_bind).destination,
                           FALSE, TRUE>>])
           /\ One(3, o.ro_bind # <<>>,
                  [tag |-> <<0, 0>>,
                   f |-> <<Head(o.ro_bind).source, Head(o.ro_bind).destination,
                           TRUE, FALSE>>])
           /\ One(4, o.proc # <<>>, [tag |-> <<0, 2, 0>>, f |-> <<Head(o.proc)>>])
           /\ One(5, o.dev # <<>>, [tag |-> <<0, 2, 1>>, f |-> <<Head(o.dev)>>])
           /\ One(6, o.tmpfs # <<>>,
                  [tag |-> <<0, 2, 2>>,
                   f |-> <<Head(o.tmpfs),
                           IF o.size = <<>> THEN <<>> ELSE <<Head(o.size) \div 1024>>,
                           o.perms>>])
           /\ One(7, o.mqueue # <<>>, [tag |-> <<0, 2, 3>>, f |-> <<Head(o.mqueue)>>])
           /\ One(8, o.dir # <<>>, [tag |-> <<1, 0>>, f |-> <<Head(o.dir)>>])
           /\ OfRank(plan, 9) =
                 [i \in DOMAIN o.file |->
                     [tag |-> <<1, 1>>, f |-> <<o.file[i].fd, o.file[i].destination>>]]
           /\ One(10, o.symlink # <<>>,
                  [tag |-> <<1, 3>>,
                   f |-> <<Head(o.symlink).destination, Head(o.symlink).source>>])
           /\ One(11, o.remount_ro # <<>>,
                  [tag |-> <<1, 4>>, f |-> <<Head(o.remount_ro)>>])
           /\ OfRank(plan, 12) =
                 [i \in DOMAIN o.chmod |->
                     [tag |-> <<2, 1>>, f |-> <<o.chmod[i].path, o.chmod[i].permissions>>]]

\* A plan built from every directive: fourteen commands, tmpfs with 2 KiB and 0700
C26_Witness ==
    /\ mnt.pc = "built" /\ Len(mnt.plan) = 14
    /\ mnt.opts.size = <<2048>> /\ mnt.opts.perms = <<448>>
    /\ mnt.plan[6] = Tmpfs(PlanPath(7), <<2>>, <<448>>)
    /\ mnt.plan[14] = Chmod(PlanPath(14), 420)


\* C27: under the setuid path every command of the mount plan is sent by the
\* worker to the supervisor in plan order and is performed by the supervisor's
\* handler, and the worker performs no mount and holds no CAP_SYS_ADMIN.
C27_WorkerSendsPlanToSupervisor ==
    (level = "Setuid" /\ mnt.pc = "returned" /\ mnt.res = "ok") =>
        /\ sent = MountCommands_from(mnt.opts)
        /\ delivered = sent
        /\ mnt.performed = sent
        /\ "CAP_SYS_ADMIN" \notin mnt.wcaps

\* handle_mounts returned Ok at level Setuid for a plan of one bind mount
C27_WitnessReturned ==
    /\ level = "Setuid" /\ mnt.pc = "returned" /\ mnt.res = "ok"
    /\ Len(mnt.plan) = 1 /\ mnt.plan[1].tag = <<0, 0>>

\* C28: when the child is not on the setuid path, handle_mounts executes every
\* command of the mount plan in-process, in plan order.
C28_PlanExecutedInProcess ==
    (level # "Setuid" /\ mnt.pc = "returned") =>
        mnt.performed = MountCommands_from(mnt.opts)

\* handle_mounts returned Ok at level Rootless with a bind directive given
C28_WitnessReturned ==
    /\ level = "Rootless" /\ mnt.pc = "returned" /\ mnt.res = "ok"
    /\ mnt.opts.bind # <<>>


\* The calls of the child that mount, unmount or change the root
MountOps == {"mount_slave_rec", "mount_tmpfs", "bind_mount_self", "pivot_root",
             "handle_mounts", "remount", "umount2"}

\* C29: when a user namespace was requested the child drops every capability
\* from its Bounding set during preparation, before any mount operation and
\* before exec, so the target starts with an empty Bounding set.
C29_ChildDropsBounding ==
    cfg.unshare_user =>
        /\ \A i \in DOMAIN chOps :
              (chOps[i][1] \in MountOps \/ chOps[i] = ExecStep) =>
                 \E j \in 1..(i - 1) : chOps[j][1] = "capbset_drop_all"
        /\ (ExecStep \in Range(chOps)) =>
              ChildBounding(cfg.unshare_user, caps.bnd, chOps) = {}

\* A child cloned into a new user namespace has exec'd the target
C29_WitnessExec ==
    cfg.unshare_user /\ chPc = "target" /\ ExecStep \in Range(chOps)

\* The steps of C30, in the order stated
C30_Order ==
    << <<"mount_slave_rec", "BASE_PATH", "">>,
       <<"mount_tmpfs", "BASE_PATH", "">>,
       <<"chdir", "BASE_PATH", "">>,
       <<"mkdir", "newroot", "0755">>,
       <<"bind_mount_self", "newroot", "">>,
       <<"mkdir", "oldroot", "0755">>,
       <<"pivot_root", "newroot", "oldroot">>,
       <<"chdir", "/", "">>,
       <<"remount", "oldroot", "MS_SILENT|MS_REC|MS_PRIVATE">>,
       <<"umount2", "oldroot", "MNT_DETACH">>,
       <<"open", "/", "O_DIRECTORY|O_RDONLY">>,
       <<"chdir", "/newroot", "">>,
       <<"pivot_root", ".", ".">>,
       <<"fchdir", "saved_root_fd", "">>,
       <<"umount2", ".", "MNT_DETACH">>,
       <<"chdir", "/", "">>,
       <<"execvp", "executable", "">> >>

AtOrBeneath(p, q) == Len(q) <= Len(p) /\ SubSeq(p, 1, Len(q)) = q

\* C31: the first pivot_root of Jail preparation has the tmpfs base directory
\* as its new root and oldroot as put_old, so that put_old lies at or beneath
\* the new root.
C31_FirstPivotOntoBase ==
    \A i \in DOMAIN chOps :
        (chOps[i][1] = "pivot_root"
            /\ \A j \in 1..(i - 1) : chOps[j][1] # "pivot_root") =>
           LET cwd     == CwdAfter(SubSeq(chOps, 1, i - 1))
               new     == ResolvePath(cwd, chOps[i][2])
               put_old == ResolvePath(cwd, chOps[i][3])
           IN /\ new = <<"BASE_PATH">>
              /\ put_old = <<"BASE_PATH", "oldroot">>
              /\ AtOrBeneath(put_old, new)

\* The child has made its first pivot_root call, from the base directory
C31_WitnessPivot ==
    /\ \E i \in DOMAIN chOps : chOps[i][1] = "pivot_root"
    /\ CwdAfter(chOps) \in {<<"BASE_PATH">>, <<>>}


\* C32: the mount plan is handled before mounts are marked slave-recursive
\* and before the first pivot_root, while the original root is still the
\* child's root.
C32_MountsHandledBeforePivot ==
    \A i \in DOMAIN chOps :
        (chOps[i][1] = "handle_mounts") =>
            \A j \in 1..(i - 1) : chOps[j][1] \notin {"mount_slave_rec", "pivot_root"}

\* The child has returned from handle_mounts
C32_WitnessHandled ==
    \E i \in DOMAIN chOps : chOps[i][1] = "handle_mounts"


C34_PermissiveSkipsExpected ==
    (capCall.fn = "retain") =>
        LET refused == "CAP_SETPCAP" \notin caps.eff /\ capCall.requested # AllCaps
        IN /\ (capCall.permissive /\ refused) => capCall.ok
           /\ (~capCall.permissive /\ refused) => ~capCall.ok

\* A permissive retain whose drop was refused with EPERM
C34_WitnessPermissiveRefused ==
    /\ capCall.fn = "retain" /\ capCall.permissive
    /\ "CAP_SETPCAP" \notin caps.eff /\ capCall.requested = {}
    /\ ~capCall.ok


\* C35: once the handler passed to Supervisor::listen has returned an error,
\* listen has returned it: the handler is not invoked again and no further
\* datagram is read, even when more commands are queued, and the supervisor
\* function's result is that error.
C35_HandlerErrorEndsListen ==
    /\ [][(lsn = "handler_error") =>
             (lsn' = "handler_error" /\ delivered' = delivered
                 /\ Len(sock') >= Len(sock))]_vars
    /\ [](lsn = "handler_error" /\ ps.pc # "parent_fn" => ps.result = "handler_error")

\* The handler failed while another command was still queued
C35_WitnessQueued ==
    lsn = "handler_error" /\ sock # <<>> /\ Len(delivered) = 1


\* C36: the waited flag of a JailHandle never goes back to false; dropping a
\* handle whose flag is true makes no wait call and prints nothing; dropping a
\* handle that was never waited on makes one non-blocking wait and prints the
\* warning if the child is still running.
C36_WaitedStickyAndDrop ==
    /\ [][handle.waited => handle'.waited]_vars
    /\ [][(~handle.dropped /\ handle'.dropped) =>
             IF handle.waited
             THEN jh'.calls = jh.calls /\ log' = log
             ELSE /\ jh'.calls = Append(jh.calls, "waitpid_nohang")
                  /\ (chStatus = Alive) => ("warn_dropped_still_running" \in log')]_vars

\* A handle never waited on was dropped while its child was running
C36_WitnessDroppedRunning ==
    /\ handle.dropped /\ ~handle.waited /\ chStatus = Alive
    /\ "warn_dropped_still_running" \in log

\* C37: once a wait call has reaped the child, no later JailHandle operation
\* calls waitpid on its pid or sends it SIGKILL.
C37_NoCallAfterReap ==
    [][jh.reaped => jh'.calls = jh.calls]_vars

\* The child was reaped by wait and a later operation has returned
C37_WitnessReapedThenCalled ==
    jh.reaped /\ handle.waited /\ jh.n >= 2


C38_WitnessSignalFirst ==
    chPc = "cloned" /\ efd > 0


C40_WitnessOkWithFailedWorker ==
    /\ ps.pc = "returned" /\ ps.result = "ok"
    /\ ps.wstatus = Exited(1) /\ ps.line = "child_exited_with_status"

====
